---- MODULE Spec2Model ----
(***************************************************************************)
(* A model of visual-inspector-mcp: the Session State Coordinator          *)
(* (websocket.ts: view roster, current document, current selection, the    *)
(* queue of selection waiters and their timers), the CSS Change            *)
(* Application Engine (css-editor.ts) on a small file system, and the      *)
(* controller tools of mcp-server.ts that drive both.                      *)
(***************************************************************************)
EXTENDS Integers, Sequences, FiniteSets, TLC

VARIABLES
    connectedClients,    \* websocket.ts: Set<WebSocket> of views in the roster
    readyState,          \* ws transport state of every view
    selectedElement,     \* websocket.ts: last selected element, or Null
    currentHtml,         \* websocket.ts: {filePath, content}, or NoDoc
    selectionResolvers,  \* websocket.ts: queue of pending resolve callbacks
    calls,               \* one record per waitForSelection call (its promise and timer)
    currentFilePath,     \* mcp-server.ts: the file the controller inspects, or Null
    fs,                  \* the file system: path -> [exists, text]
    watchers,            \* file-watcher.ts: the main documents that have a watcher
    debounceTimers,      \* file-watcher.ts: changed path -> its pending debounce timer
    out,                 \* what the last step sent, logged or returned
    wrote                \* the files the last step wrote, in order

vars == <<connectedClients, readyState, selectedElement, currentHtml,
          selectionResolvers, calls, currentFilePath, fs, watchers,
          debounceTimers, out, wrote>>

(***************************************************************************)
(* Bounds of the model.                                                    *)
(***************************************************************************)
MaxCalls == 2
MaxTimeout == 2

Views == {"v1", "v2"}
Elements == {"e1", "e2"}
Timeouts == 1..MaxTimeout
CallIds == 1..MaxCalls
Null == "null"

(***************************************************************************)
(* Text.  A selector is a sequence of characters; a CSS fragment is the    *)
(* rule tree css-tree parses it into; an HTML document is the sequence of  *)
(* the segments the editor's regular expressions tell apart.               *)
(***************************************************************************)
SelH1 == <<"h", "1">>
SelP == <<"p">>
SelEm == <<"e", "m">>

IsWs(c) == c \in {" ", "\t"}

RECURSIVE TrimLeft(_)
TrimLeft(s) ==
    IF s # <<>> /\ IsWs(Head(s)) THEN TrimLeft(Tail(s)) ELSE s

RECURSIVE TrimRight(_)
TrimRight(s) ==
    IF s # <<>> /\ IsWs(s[Len(s)]) THEN TrimRight(SubSeq(s, 1, Len(s) - 1)) ELSE s

Trim(s) == TrimRight(TrimLeft(s))

\* The first index >= i of s that holds no whitespace (Len(s) + 1 if none).
RECURSIVE SkipWs(_, _)
SkipWs(s, i) ==
    IF i <= Len(s) /\ IsWs(s[i]) THEN SkipWs(s, i + 1) ELSE i

\* s.replace(/\s+/g, ' ') from index i on.
RECURSIVE CollapseFrom(_, _)
CollapseFrom(s, i) ==
    IF i > Len(s) THEN <<>>
    ELSE IF IsWs(s[i]) THEN <<" ">> \o CollapseFrom(s, SkipWs(s, i))
    ELSE <<s[i]>> \o CollapseFrom(s, i + 1)

\* Mutant of the replace: the pattern is /ch\s*/g, whitespace before ch is kept.
RECURSIVE ReplaceAround_NoLeading(_, _, _, _)
ReplaceAround_NoLeading(s, ch, repl, i) ==
    IF i > Len(s) THEN <<>>
    ELSE IF s[i] = ch
         THEN repl \o ReplaceAround_NoLeading(s, ch, repl, SkipWs(s, i + 1))
         ELSE <<s[i]>> \o ReplaceAround_NoLeading(s, ch, repl, i + 1)

\* s.replace(/\s*ch\s*/g, repl) from index i on: the leftmost match wins.
RECURSIVE ReplaceAround(_, _, _, _)
ReplaceAround(s, ch, repl, i) ==
    IF i > Len(s) THEN <<>>
    ELSE LET j == SkipWs(s, i)
         IN  IF j <= Len(s) /\ s[j] = ch
             THEN repl \o ReplaceAround(s, ch, repl, SkipWs(s, j + 1))
             ELSE <<s[i]>> \o ReplaceAround(s, ch, repl, i + 1)

\* csstree.generate(node.prelude): the selector without the whitespace that
\* separates nothing, one space for a descendant combinator.
Generate(selector) ==
    LET c == CollapseFrom(Trim(selector), 1)
        g == ReplaceAround(c, ">", <<">">>, 1)
        n == ReplaceAround(g, "+", <<"+">>, 1)
    IN  ReplaceAround(n, ",", <<",">>, 1)

\* toLowerCase on the letters of the model (the i flag of a RegExp).
Lower(c) ==
    IF c = "H" THEN "h" ELSE IF c = "P" THEN "p" ELSE IF c = "E" THEN "e"
    ELSE IF c = "M" THEN "m" ELSE c
LowerSeq(s) == [i \in 1..Len(s) |-> Lower(s[i])]

EndsWith(s, t) ==
    Len(t) <= Len(s) /\ SubSeq(s, Len(s) - Len(t) + 1, Len(s)) = t

NormalizeSelector(selector) ==
    LET t == Trim(selector)
        c == CollapseFrom(t, 1)
        g == ReplaceAround(c, ">", <<" ", ">", " ">>, 1)
    IN  ReplaceAround(g, ",", <<",", " ">>, 1)

(***************************************************************************)
(* css-editor.ts on the parsed form of the text.                           *)
(***************************************************************************)
Decl(property, value) == [property |-> property, value |-> value]
Rule(selector, decls) == [selector |-> selector, decls |-> decls]
Change(selector, property, value) ==
    [selector |-> selector, property |-> property, value |-> value]
NoChange == Change(<<>>, "", "")

Style(css) == [kind |-> "style", css |-> css, href |-> ""]
Link(href) == [kind |-> "link", css |-> <<>>, href |-> href]
HeadClose == [kind |-> "headclose", css |-> <<>>, href |-> ""]
\* Any other stretch of the document's text.
Text(t) == [kind |-> "text", css |-> <<>>, href |-> t]

RemoteHrefs == {"http://cdn/r.css", "https://cdn/r.css", "//cdn/r.css"}
IsRemote(href) == href \in RemoteHrefs

\* String.prototype.replace with a replacement string: in the replacement,
\* "$$" stands for one "$".
Expand(value) == IF value = "$$" THEN "$" ELSE value

ModifyRule_AlwaysAppend(rule, change) ==
    [rule EXCEPT !.decls = Append(rule.decls, Decl(change.property, change.value))]

\* The walk over one matching rule's block: update every declaration of the
\* property, or append one when the block has none.
ModifyRule(rule, change) ==
    LET d == rule.decls
        propertyFound == \E i \in 1..Len(d) : d[i].property = change.property
    IN  IF propertyFound
        THEN [rule EXCEPT !.decls =
                 [i \in 1..Len(d) |->
                     IF d[i].property = change.property
                     THEN Decl(d[i].property, change.value)
                     ELSE d[i]]]
        ELSE [rule EXCEPT !.decls = Append(d, Decl(change.property, change.value))]

\* A stretch of text on which csstree.parse throws.
Unparsable == Rule(<<"}">>, <<>>)
Parses(css) == \A i \in 1..Len(css) : css[i] # Unparsable

\* propertyRegex, made of the property's text, matches a declaration whose
\* name ends with it.
PropertyEndsWith(property, target) ==
    property = target \/ <<property, target>> \in {<<"background-color", "color">>}

\* The callback of css.replace(selectorRegex, ...) on one matched block.
PatchRule(rule, change) ==
    LET d == rule.decls
    IN  IF \E k \in 1..Len(d) : PropertyEndsWith(d[k].property, change.property)
        THEN [rule EXCEPT !.decls =
                 [k \in 1..Len(d) |->
                     IF PropertyEndsWith(d[k].property, change.property)
                     THEN Decl(d[k].property, Expand(change.value))
                     ELSE d[k]]]
        ELSE [rule EXCEPT !.decls = Append(d, Decl(change.property, change.value))]

\* applyWithRegex: selectorRegex, made of the selector's text with the flags
\* gi, matches every block whose selector as written ends with that text.
ApplyWithRegex(css, change) ==
    LET hits == {i \in 1..Len(css) :
                    /\ css[i] # Unparsable
                    /\ EndsWith(LowerSeq(css[i].selector), LowerSeq(change.selector))}
    IN  [modified |-> hits # {},
         content |-> [i \in 1..Len(css) |->
                         IF i \in hits THEN PatchRule(css[i], change) ELSE css[i]]]

ModifyCssContent_Regenerate(css, change) ==
    IF ~Parses(css)
    THEN ApplyWithRegex(css, change)
    ELSE LET target == NormalizeSelector(change.selector)
             hits == {i \in 1..Len(css) :
                         NormalizeSelector(Generate(css[i].selector)) = target}
         IN  [modified |-> hits # {},
              content |-> [i \in 1..Len(css) |->
                              LET r == IF i \in hits THEN ModifyRule(css[i], change)
                                       ELSE css[i]
                              IN  Rule(Generate(r.selector), r.decls)]]

ModifyCssContent(css, change) ==
    IF ~Parses(css)
    THEN ApplyWithRegex(css, change)
    ELSE LET target == NormalizeSelector(change.selector)
             hits == {i \in 1..Len(css) :
                         NormalizeSelector(Generate(css[i].selector)) = target}
         IN  [modified |-> hits # {},
              content |-> IF hits # {}
                          THEN [i \in 1..Len(css) |->
                                   LET r == IF i \in hits THEN ModifyRule(css[i], change)
                                            ELSE css[i]
                                   IN  Rule(Generate(r.selector), r.decls)]
                          ELSE css]

\* A fragment used as a replacement string.
ExpandCss(css) ==
    [i \in 1..Len(css) |->
        Rule(css[i].selector,
             [k \in 1..Len(css[i].decls) |->
                 Decl(css[i].decls[k].property, Expand(css[i].decls[k].value))])]

\* The properties the fragments of the model declare, in the order a mapping
\* is listed.
PropertyList == <<"background-color", "color", "content", "margin">>

\* extractStylesFromCss: styles[decl.property] = value for every declaration
\* of every matching rule in document order, so the last one stays; nothing
\* when csstree.parse throws.
ExtractStylesFromCss(css, targetSelector) ==
    LET target == NormalizeSelector(targetSelector)
        hits == IF Parses(css)
                THEN {i \in 1..Len(css) :
                         NormalizeSelector(Generate(css[i].selector)) = target}
                ELSE {}
        At(p) == {x \in hits \X (1..4) :
                     x[2] <= Len(css[x[1]].decls) /\ css[x[1]].decls[x[2]].property = p}
        Last(p) == CHOOSE x \in At(p) :
                       \A y \in At(p) : y[1] < x[1] \/ (y[1] = x[1] /\ y[2] <= x[2])
        All == [k \in 1..Len(PropertyList) |->
                   IF At(PropertyList[k]) = {} THEN Decl(PropertyList[k], Null)
                   ELSE css[Last(PropertyList[k])[1]].decls[Last(PropertyList[k])[2]]]
    IN  SelectSeq(All, LAMBDA d : d.value # Null)

\* html.replace(styleRegex, ...): every block that modifyCssContent modified
\* is put back by match.replace(cssContent, result.content).
ApplyToInlineStyle(html, change) ==
    LET res == [i \in 1..Len(html) |->
                   IF html[i].kind = "style"
                   THEN ModifyCssContent(html[i].css, change)
                   ELSE [modified |-> FALSE, content |-> html[i].css]]
    IN  [found |-> \E i \in 1..Len(html) : res[i].modified,
         content |-> [i \in 1..Len(html) |->
                         IF res[i].modified
                         THEN [html[i] EXCEPT !.css = ExpandCss(res[i].content)]
                         ELSE html[i]]]

\* Mutant of findLinkedCssFiles: the links come out last first.
RECURSIVE FindLinkedCssFiles_Reversed(_)
FindLinkedCssFiles_Reversed(html) ==
    IF html = <<>> THEN <<>>
    ELSE LET s == Head(html)
         IN  FindLinkedCssFiles_Reversed(Tail(html))
             \o (IF s.kind = "link" /\ ~IsRemote(s.href) THEN <<s.href>> ELSE <<>>)

\* The hrefs of the local stylesheet links, in document order.
RECURSIVE FindLinkedCssFiles(_)
FindLinkedCssFiles(html) ==
    IF html = <<>> THEN <<>>
    ELSE LET s == Head(html)
         IN  (IF s.kind = "link" /\ ~IsRemote(s.href) THEN <<s.href>> ELSE <<>>)
             \o FindLinkedCssFiles(Tail(html))

ApplyToCssFile(files, cssPath, change) ==
    IF ~files[cssPath].exists
    THEN [found |-> FALSE, files |-> files]
    ELSE LET result == ModifyCssContent(files[cssPath].text, change)
         IN  IF result.modified
             THEN [found |-> TRUE,
                   files |-> [files EXCEPT ![cssPath].text = result.content]]
             ELSE [found |-> FALSE, files |-> files]

\* The loop over the linked files from index i on: the first file that is
\* modified ends it.
RECURSIVE ApplyToLinked(_, _, _, _)
ApplyToLinked(files, linkedCss, change, i) ==
    IF i > Len(linkedCss)
    THEN [found |-> FALSE, file |-> "", files |-> files]
    ELSE LET cssResult == ApplyToCssFile(files, linkedCss[i], change)
         IN  IF cssResult.found
             THEN [found |-> TRUE, file |-> linkedCss[i], files |-> cssResult.files]
             ELSE ApplyToLinked(files, linkedCss, change, i + 1)

\* With a closing head tag the new block is the replacement string of
\* html.replace('</head>', ...); without one it is put in front as it is.
AddStyleBlock(html, change) ==
    LET newStyle == Style(<<Rule(change.selector,
                                  <<Decl(change.property, change.value)>>)>>)
        heads == {i \in 1..Len(html) : html[i].kind = "headclose"}
    IN  IF heads # {}
        THEN LET h == CHOOSE i \in heads : \A j \in heads : i <= j
             IN  SubSeq(html, 1, h - 1)
                 \o <<[newStyle EXCEPT !.css = ExpandCss(@)]>>
                 \o SubSeq(html, h, Len(html))
        ELSE <<newStyle>> \o html

\* The value a mapping holds for a property, Null for none.
Lookup(styles, p) ==
    IF \E j \in 1..Len(styles) : styles[j].property = p
    THEN styles[CHOOSE j \in 1..Len(styles) : styles[j].property = p].value
    ELSE Null

Assign_KeepFirst(styles, more) ==
    LET All == [k \in 1..Len(PropertyList) |->
                   Decl(PropertyList[k],
                        IF Lookup(styles, PropertyList[k]) # Null
                        THEN Lookup(styles, PropertyList[k])
                        ELSE Lookup(more, PropertyList[k]))]
    IN  SelectSeq(All, LAMBDA d : d.value # Null)

\* Object.assign(styles, more): what more maps replaces what styles maps.
Assign(styles, more) ==
    LET All == [k \in 1..Len(PropertyList) |->
                   Decl(PropertyList[k],
                        IF Lookup(more, PropertyList[k]) # Null
                        THEN Lookup(more, PropertyList[k])
                        ELSE Lookup(styles, PropertyList[k]))]
    IN  SelectSeq(All, LAMBDA d : d.value # Null)

\* The while loop over the style blocks of the document, from segment i on.
RECURSIVE ReadStyleBlocks(_, _, _, _)
ReadStyleBlocks(html, selector, i, styles) ==
    IF i > Len(html)
    THEN styles
    ELSE ReadStyleBlocks(html, selector, i + 1,
             IF html[i].kind = "style"
             THEN Assign(styles, ExtractStylesFromCss(html[i].css, selector))
             ELSE styles)

\* The for loop over the linked files, from index i on.
RECURSIVE ReadLinked(_, _, _, _, _)
ReadLinked(files, linkedCss, selector, i, styles) ==
    IF i > Len(linkedCss)
    THEN styles
    ELSE ReadLinked(files, linkedCss, selector, i + 1,
             IF files[linkedCss[i]].exists
             THEN Assign(styles, ExtractStylesFromCss(files[linkedCss[i]].text, selector))
             ELSE styles)

GetStylesForSelector(files, htmlPath, selector) ==
    IF ~files[htmlPath].exists
    THEN <<>>
    ELSE LET html == files[htmlPath].text
         IN  ReadLinked(files, FindLinkedCssFiles(html), selector, 1,
                        ReadStyleBlocks(html, selector, 1, <<>>))

\* Mutant of applyCssChange: the return after the write of the embedded block
\* is missing, and the linked stylesheets are tried as well.
ApplyCssChange_FallsThrough(files, htmlPath, change) ==
    IF ~files[htmlPath].exists
    THEN [success |-> FALSE, message |-> "not-found", modifiedFile |-> "",
          files |-> files, writes |-> <<>>]
    ELSE LET htmlContent == files[htmlPath].text
             styleResult == ApplyToInlineStyle(htmlContent, change)
             written == IF styleResult.found
                        THEN [files EXCEPT ![htmlPath].text = styleResult.content]
                        ELSE files
             linked == ApplyToLinked(written, FindLinkedCssFiles(htmlContent), change, 1)
         IN  IF linked.found
             THEN [success |-> TRUE, message |-> "linked", modifiedFile |-> linked.file,
                   files |-> linked.files,
                   writes |-> IF styleResult.found THEN <<htmlPath, linked.file>>
                              ELSE <<linked.file>>]
             ELSE IF styleResult.found
             THEN [success |-> TRUE, message |-> "style", modifiedFile |-> htmlPath,
                   files |-> written, writes |-> <<htmlPath>>]
             ELSE [success |-> TRUE, message |-> "added", modifiedFile |-> htmlPath,
                   files |-> [files EXCEPT ![htmlPath].text =
                                 AddStyleBlock(htmlContent, change)],
                   writes |-> <<htmlPath>>]

\* Mutant of applyCssChange: the linked stylesheets are tried before the
\* embedded blocks.
ApplyCssChange_LinkedFirst(files, htmlPath, change) ==
    IF ~files[htmlPath].exists
    THEN [success |-> FALSE, message |-> "not-found", modifiedFile |-> "",
          files |-> files, writes |-> <<>>]
    ELSE LET htmlContent == files[htmlPath].text
             styleResult == ApplyToInlineStyle(htmlContent, change)
             linked == ApplyToLinked(files, FindLinkedCssFiles(htmlContent), change, 1)
         IN  IF linked.found
             THEN [success |-> TRUE, message |-> "linked", modifiedFile |-> linked.file,
                   files |-> linked.files, writes |-> <<linked.file>>]
             ELSE IF styleResult.found
             THEN [success |-> TRUE, message |-> "style", modifiedFile |-> htmlPath,
                   files |-> [files EXCEPT ![htmlPath].text = styleResult.content],
                   writes |-> <<htmlPath>>]
             ELSE [success |-> TRUE, message |-> "added", modifiedFile |-> htmlPath,
                   files |-> [files EXCEPT ![htmlPath].text =
                                 AddStyleBlock(htmlContent, change)],
                   writes |-> <<htmlPath>>]

\* Mutant of applyCssChange: the existsSync test is missing, a missing
\* document is taken as empty and created.
ApplyCssChange_NoExistsCheck(files, htmlPath, change) ==
    LET htmlContent == files[htmlPath].text
        styleResult == ApplyToInlineStyle(htmlContent, change)
        linked == ApplyToLinked(files, FindLinkedCssFiles(htmlContent), change, 1)
    IN  IF styleResult.found
        THEN [success |-> TRUE, message |-> "style", modifiedFile |-> htmlPath,
              files |-> [files EXCEPT ![htmlPath].text = styleResult.content],
              writes |-> <<htmlPath>>]
        ELSE IF linked.found
        THEN [success |-> TRUE, message |-> "linked", modifiedFile |-> linked.file,
              files |-> linked.files, writes |-> <<linked.file>>]
        ELSE [success |-> TRUE, message |-> "added", modifiedFile |-> htmlPath,
              files |-> [files EXCEPT ![htmlPath] =
                            [exists |-> TRUE,
                             text |-> AddStyleBlock(htmlContent, change)]],
              writes |-> <<htmlPath>>]

\* applyCssChange on the file system `files`: the result, the file system
\* it leaves and the files it wrote.
ApplyCssChange(files, htmlPath, change) ==
    IF ~files[htmlPath].exists
    THEN [success |-> FALSE, message |-> "not-found", modifiedFile |-> "",
          files |-> files, writes |-> <<>>]
    ELSE LET htmlContent == files[htmlPath].text
             styleResult == ApplyToInlineStyle(htmlContent, change)
             linked == ApplyToLinked(files, FindLinkedCssFiles(htmlContent), change, 1)
         IN  IF styleResult.found
             THEN [success |-> TRUE, message |-> "style", modifiedFile |-> htmlPath,
                   files |-> [files EXCEPT ![htmlPath].text = styleResult.content],
                   writes |-> <<htmlPath>>]
             ELSE IF linked.found
             THEN [success |-> TRUE, message |-> "linked", modifiedFile |-> linked.file,
                   files |-> linked.files, writes |-> <<linked.file>>]
             ELSE [success |-> TRUE, message |-> "added", modifiedFile |-> htmlPath,
                   files |-> [files EXCEPT ![htmlPath].text =
                                 AddStyleBlock(htmlContent, change)],
                   writes |-> <<htmlPath>>]

(***************************************************************************)
(* The inputs of the model: the files on disk at start, the documents a    *)
(* view pushes, the changes a view or the controller asks for.             *)
(***************************************************************************)
Files == {"a.html", "b.html", "s.css", "t.css", "ghost.html"}
HtmlPaths == {"a.html", "ghost.html"}
Removable == {"a.html"}

InitHtml ==
    <<Style(<<Rule(SelH1, <<Decl("color", "blue")>>)>>),
      Link("https://cdn/r.css"), Link("s.css"), HeadClose>>
InitCss == <<Rule(SelP, <<Decl("color", "blue")>>)>>

InitFs ==
    [f \in Files |->
        IF f = "a.html" THEN [exists |-> TRUE, text |-> InitHtml]
        ELSE IF f = "b.html" THEN [exists |-> TRUE, text |-> <<HeadClose>>]
        ELSE IF f = "s.css" THEN [exists |-> TRUE, text |-> InitCss]
        ELSE IF f = "t.css" THEN [exists |-> TRUE, text |-> InitCss]
        ELSE [exists |-> FALSE, text |-> <<>>]]

Doc(filePath, content) == [filePath |-> filePath, content |-> content]
NoDoc == Doc(Null, <<>>)
ViewDocs == {Doc("ghost.html", <<HeadClose>>), Doc("a.html", InitHtml)}
Changes == {Change(s, "color", "red") : s \in {SelH1, SelP, SelEm}}

(***************************************************************************)
(* The state machine.                                                      *)
(***************************************************************************)
Min(a, b) == IF a < b THEN a ELSE b

\* One entry of `out`: a message sent to the views in `to`, a line logged,
\* or the value a controller tool returns.
Entry(kind, type, to, doc, change) ==
    [kind |-> kind, type |-> type, to |-> to, doc |-> doc, change |-> change]
Send(type, ws, doc, change) == Entry("send", type, {ws}, doc, change)
Log(type) == Entry("log", type, {}, NoDoc, NoChange)
Return(type) == Entry("return", type, {}, NoDoc, NoChange)
\* The message handleMessage was given by view ws, and the tool call the
\* controller made: the first entry of the step that handles it.
Recv(type, ws, doc, change) == Entry("recv", type, {ws}, doc, change)
Call(type, file_path, change) == Entry("call", type, {}, Doc(file_path, <<>>), change)

\* Mutant of broadcast: a view of the roster whose transport is not open makes
\* the loop stop, and no view is sent the message.
Broadcast_StopAtClosed(type, doc, change) ==
    Entry("send", type,
          IF \E client \in connectedClients : readyState[client] # "OPEN"
          THEN {} ELSE connectedClients, doc, change)

\* Mutant of broadcast: the readyState test is missing.
Broadcast_All(type, doc, change) ==
    Entry("send", type, connectedClients, doc, change)

\* broadcast(type, payload): one send to every view of the roster whose
\* transport is open.
Broadcast(type, doc, change) ==
    Entry("send", type,
          {client \in connectedClients : readyState[client] = "OPEN"}, doc, change)

\* A waitForSelection call: its promise (st, val), its timer and the time
\* left on it, and how often its resolve or reject was invoked (settles) and
\* its resolver taken out of the queue (removals).
IdleCall ==
    [st |-> "idle", val |-> Null, timer |-> "none", left |-> 0,
     settles |-> 0, removals |-> 0, registered |-> FALSE]

\* A path without a pending debounce timer; an armed timer holds the time
\* left on it, the main document its callback will read, the time since the
\* last change event of the path, and whether it took the place of a timer
\* that was pending (clearTimeout was called).
NoTimer ==
    [timer |-> "none", left |-> 0, main |-> Null, since |-> 0, replaced |-> FALSE]

Occurrences(queue, c) == Cardinality({i \in 1..Len(queue) : queue[i] = c})
InQueue(queue, c) == Occurrences(queue, c) > 0

\* A promise settles once: a later resolve or reject leaves it as it is.
Settle(call, st, val, n) ==
    [call EXCEPT !.st = IF call.st = "pending" THEN st ELSE @,
                 !.val = IF call.st = "pending" THEN val ELSE @,
                 !.settles = Min(@ + n, 2)]

\* Mutant of splice(index, 1): shift(), which drops the head of the queue.
Splice_Shift(queue, index) == Tail(queue)

\* array.splice(index, 1)
Splice(queue, index) ==
    SubSeq(queue, 1, index - 1) \o SubSeq(queue, index + 1, Len(queue))

\* array.indexOf(c), 0 when absent (JavaScript's -1)
IndexOf(queue, c) ==
    IF InQueue(queue, c)
    THEN CHOOSE i \in 1..Len(queue) :
             queue[i] = c /\ \A j \in 1..Len(queue) : queue[j] = c => i <= j
    ELSE 0

Init ==
    /\ connectedClients = {}
    /\ readyState = [v \in Views |-> "NONE"]
    /\ selectedElement = Null
    /\ currentHtml = NoDoc
    /\ selectionResolvers = <<>>
    /\ calls = [c \in CallIds |-> IdleCall]
    /\ currentFilePath = Null
    /\ fs = InitFs
    /\ watchers = {}
    /\ debounceTimers = [f \in Files |-> NoTimer]
    /\ out = <<>>
    /\ wrote = <<>>

\* ---- the view roster (startWebSocketServer's connection handler) ----
Connect(ws) ==
    /\ readyState[ws] = "NONE"
    /\ connectedClients' = connectedClients \cup {ws}
    /\ readyState' = [readyState EXCEPT ![ws] = "OPEN"]
    /\ out' = <<>>
    /\ wrote' = <<>>
    /\ UNCHANGED <<selectedElement, currentHtml, selectionResolvers, calls,
                   currentFilePath, fs>>
    /\ UNCHANGED <<watchers, debounceTimers>>

\* The peer starts closing: the transport leaves OPEN before 'close' is emitted.
BeginClose(ws) ==
    /\ readyState[ws] = "OPEN"
    /\ readyState' = [readyState EXCEPT ![ws] = "CLOSING"]
    /\ out' = <<>>
    /\ wrote' = <<>>
    /\ UNCHANGED <<connectedClients, selectedElement, currentHtml,
                   selectionResolvers, calls, currentFilePath, fs>>
    /\ UNCHANGED <<watchers, debounceTimers>>

OnClose(ws) ==
    /\ readyState[ws] \in {"OPEN", "CLOSING"}
    /\ connectedClients' = connectedClients \ {ws}
    /\ readyState' = [readyState EXCEPT ![ws] = "NONE"]
    /\ out' = <<>>
    /\ wrote' = <<>>
    /\ UNCHANGED <<selectedElement, currentHtml, selectionResolvers, calls,
                   currentFilePath, fs>>
    /\ UNCHANGED <<watchers, debounceTimers>>

OnError(ws) ==
    /\ readyState[ws] \in {"OPEN", "CLOSING"}
    /\ ws \in connectedClients
    /\ connectedClients' = connectedClients \ {ws}
    /\ readyState' = [readyState EXCEPT ![ws] = "CLOSING"]
    /\ out' = <<Log("ws-error")>>
    /\ wrote' = <<>>
    /\ UNCHANGED <<selectedElement, currentHtml, selectionResolvers, calls,
                   currentFilePath, fs>>
    /\ UNCHANGED <<watchers, debounceTimers>>

\* ---- handleMessage: one action per message type ----
\* Mutants of the element-selected handler: one resolves only the waiter at
\* the head of the queue, one keeps a selection that already exists.
HandleElementSelected_OnlyFirst(ws, payload) ==
    /\ readyState[ws] = "OPEN"
    /\ selectedElement' = payload
    /\ IF selectionResolvers # <<>>
       THEN /\ calls' = [calls EXCEPT ![Head(selectionResolvers)] =
                   [Settle(@, "resolved", payload, 1)
                    EXCEPT !.removals = Min(@ + 1, 2)]]
            /\ selectionResolvers' = Tail(selectionResolvers)
       ELSE UNCHANGED <<calls, selectionResolvers>>
    /\ out' = <<Recv("element-selected", ws, NoDoc, NoChange)>>
    /\ wrote' = <<>>
    /\ UNCHANGED <<connectedClients, readyState, currentHtml, currentFilePath, fs>>
    /\ UNCHANGED <<watchers, debounceTimers>>

HandleElementSelected_KeepFirst(ws, payload) ==
    /\ readyState[ws] = "OPEN"
    /\ selectedElement' = IF selectedElement = Null THEN payload ELSE selectedElement
    /\ calls' = [c \in CallIds |->
                    IF InQueue(selectionResolvers, c)
                    THEN [Settle(calls[c], "resolved", payload,
                                 Occurrences(selectionResolvers, c))
                          EXCEPT !.removals =
                              Min(@ + Occurrences(selectionResolvers, c), 2)]
                    ELSE calls[c]]
    /\ selectionResolvers' = <<>>
    /\ out' = <<Recv("element-selected", ws, NoDoc, NoChange)>>
    /\ wrote' = <<>>
    /\ UNCHANGED <<connectedClients, readyState, currentHtml, currentFilePath, fs>>
    /\ UNCHANGED <<watchers, debounceTimers>>

HandleElementSelected(ws, payload) ==
    /\ readyState[ws] = "OPEN"
    /\ selectedElement' = payload
    /\ calls' = [c \in CallIds |->
                    IF InQueue(selectionResolvers, c)
                    THEN [Settle(calls[c], "resolved", payload,
                                 Occurrences(selectionResolvers, c))
                          EXCEPT !.removals =
                              Min(@ + Occurrences(selectionResolvers, c), 2)]
                    ELSE calls[c]]
    /\ selectionResolvers' = <<>>
    /\ out' = <<Recv("element-selected", ws, NoDoc, NoChange)>>
    /\ wrote' = <<>>
    /\ UNCHANGED <<connectedClients, readyState, currentHtml, currentFilePath, fs>>
    /\ UNCHANGED <<watchers, debounceTimers>>

\* Mutant of the ping handler: the pong is broadcast.
HandlePing_Broadcast(ws) ==
    /\ readyState[ws] = "OPEN"
    /\ out' = <<Recv("ping", ws, NoDoc, NoChange),
                Broadcast("pong", NoDoc, NoChange)>>
    /\ wrote' = <<>>
    /\ UNCHANGED <<connectedClients, readyState, selectedElement, currentHtml,
                   selectionResolvers, calls, currentFilePath, fs>>
    /\ UNCHANGED <<watchers, debounceTimers>>

HandlePing(ws) ==
    /\ readyState[ws] = "OPEN"
    /\ out' = <<Recv("ping", ws, NoDoc, NoChange),
                Send("pong", ws, NoDoc, NoChange)>>
    /\ wrote' = <<>>
    /\ UNCHANGED <<connectedClients, readyState, selectedElement, currentHtml,
                   selectionResolvers, calls, currentFilePath, fs>>
    /\ UNCHANGED <<watchers, debounceTimers>>

\* Mutant of the ready handler: the document is broadcast.
HandleReady_Broadcast(ws) ==
    /\ readyState[ws] = "OPEN"
    /\ out' = IF currentHtml # NoDoc
              THEN <<Recv("ready", ws, NoDoc, NoChange),
                     Broadcast("load-html", currentHtml, NoChange)>>
              ELSE <<Recv("ready", ws, NoDoc, NoChange)>>
    /\ wrote' = <<>>
    /\ UNCHANGED <<connectedClients, readyState, selectedElement, currentHtml,
                   selectionResolvers, calls, currentFilePath, fs>>
    /\ UNCHANGED <<watchers, debounceTimers>>

HandleReady(ws) ==
    /\ readyState[ws] = "OPEN"
    /\ out' = IF currentHtml # NoDoc
              THEN <<Recv("ready", ws, NoDoc, NoChange),
                     Send("load-html", ws, currentHtml, NoChange)>>
              ELSE <<Recv("ready", ws, NoDoc, NoChange)>>
    /\ wrote' = <<>>
    /\ UNCHANGED <<connectedClients, readyState, selectedElement, currentHtml,
                   selectionResolvers, calls, currentFilePath, fs>>
    /\ UNCHANGED <<watchers, debounceTimers>>

HandleLoadHtml(ws, htmlPayload) ==
    /\ readyState[ws] = "OPEN"
    /\ IF htmlPayload # NoDoc
       THEN /\ currentHtml' = htmlPayload
            /\ out' = <<Recv("load-html", ws, htmlPayload, NoChange),
                        Broadcast("load-html", htmlPayload, NoChange)>>
       ELSE /\ currentHtml' = currentHtml
            /\ out' = <<Recv("load-html", ws, htmlPayload, NoChange)>>
    /\ wrote' = <<>>
    /\ UNCHANGED <<connectedClients, readyState, selectedElement,
                   selectionResolvers, calls, currentFilePath, fs>>
    /\ UNCHANGED <<watchers, debounceTimers>>

\* Mutant of the apply-css handler: the file is not read again, the document
\* held before the change is broadcast.
HandleApplyCss_Stale(ws, cssPayload) ==
    /\ readyState[ws] = "OPEN"
    /\ IF currentHtml # NoDoc
       THEN \E result \in {ApplyCssChange(fs, currentHtml.filePath, cssPayload)} :
                IF result.success
                THEN /\ fs' = result.files
                     /\ wrote' = result.writes
                     /\ currentHtml' = currentHtml
                     /\ out' = <<Recv("apply-css", ws, NoDoc, cssPayload),
                                 Broadcast("load-html", currentHtml, NoChange),
                                 Broadcast("css-applied", NoDoc, cssPayload)>>
                ELSE /\ out' = <<Recv("apply-css", ws, NoDoc, cssPayload)>>
                     /\ wrote' = <<>>
                     /\ UNCHANGED <<fs, currentHtml>>
       ELSE /\ out' = <<Recv("apply-css", ws, NoDoc, cssPayload)>>
            /\ wrote' = <<>>
            /\ UNCHANGED <<fs, currentHtml>>
    /\ UNCHANGED <<connectedClients, readyState, selectedElement,
                   selectionResolvers, calls, currentFilePath>>
    /\ UNCHANGED <<watchers, debounceTimers>>

HandleApplyCss(ws, cssPayload) ==
    /\ readyState[ws] = "OPEN"
    /\ IF currentHtml # NoDoc
       THEN \E result \in {ApplyCssChange(fs, currentHtml.filePath, cssPayload)} :
                IF result.success
                THEN LET updated == Doc(currentHtml.filePath,
                                        result.files[currentHtml.filePath].text)
                     IN  /\ fs' = result.files
                         /\ wrote' = result.writes
                         /\ currentHtml' = updated
                         /\ out' = <<Recv("apply-css", ws, NoDoc, cssPayload),
                                     Broadcast("load-html", updated, NoChange),
                                     Broadcast("css-applied", NoDoc, cssPayload)>>
                ELSE /\ out' = <<Recv("apply-css", ws, NoDoc, cssPayload)>>
                     /\ wrote' = <<>>
                     /\ UNCHANGED <<fs, currentHtml>>
       ELSE /\ out' = <<Recv("apply-css", ws, NoDoc, cssPayload)>>
            /\ wrote' = <<>>
            /\ UNCHANGED <<fs, currentHtml>>
    /\ UNCHANGED <<connectedClients, readyState, selectedElement,
                   selectionResolvers, calls, currentFilePath>>
    /\ UNCHANGED <<watchers, debounceTimers>>

HandleUnknown(ws) ==
    /\ readyState[ws] = "OPEN"
    /\ out' = <<Recv("unknown", ws, NoDoc, NoChange),
                Log("unknown-type")>>
    /\ wrote' = <<>>
    /\ UNCHANGED <<connectedClients, readyState, selectedElement, currentHtml,
                   selectionResolvers, calls, currentFilePath, fs>>
    /\ UNCHANGED <<watchers, debounceTimers>>

GetSelectedElement == selectedElement

\* ---- waitForSelection and its timer ----
\* Calls take their ids in order: c is the next call made.
IsNextCall(c) ==
    /\ calls[c].st = "idle"
    /\ \A d \in CallIds : d < c => calls[d].st # "idle"

\* Mutant of waitForSelection: the early return is missing, so a call that was
\* resolved at once is queued and timed as well.
WaitForSelection_NoReturn(c, timeoutMs) ==
    /\ IsNextCall(c)
    /\ selectionResolvers' = Append(selectionResolvers, c)
    /\ calls' = [calls EXCEPT ![c] =
           IF selectedElement # Null
           THEN [IdleCall EXCEPT !.st = "resolved", !.val = selectedElement,
                                 !.settles = 1, !.timer = "armed",
                                 !.left = timeoutMs, !.registered = TRUE]
           ELSE [IdleCall EXCEPT !.st = "pending", !.timer = "armed",
                                 !.left = timeoutMs, !.registered = TRUE]]
    /\ out' = <<>>
    /\ wrote' = <<>>
    /\ UNCHANGED <<connectedClients, readyState, selectedElement, currentHtml,
                   currentFilePath, fs>>
    /\ UNCHANGED <<watchers, debounceTimers>>

WaitForSelection(c, timeoutMs) ==
    /\ IsNextCall(c)
    /\ IF selectedElement # Null
       THEN /\ calls' = [calls EXCEPT ![c] =
                   [IdleCall EXCEPT !.st = "resolved", !.val = selectedElement,
                                    !.settles = 1]]
            /\ UNCHANGED selectionResolvers
       ELSE /\ selectionResolvers' = Append(selectionResolvers, c)
            /\ calls' = [calls EXCEPT ![c] =
                   [IdleCall EXCEPT !.st = "pending", !.timer = "armed",
                                    !.left = timeoutMs, !.registered = TRUE]]
    /\ out' = <<>>
    /\ wrote' = <<>>
    /\ UNCHANGED <<connectedClients, readyState, selectedElement, currentHtml,
                   currentFilePath, fs>>
    /\ UNCHANGED <<watchers, debounceTimers>>

\* Mutant of the timer callback: it rejects without looking whether the
\* resolver is still queued.
TimerFire_AlwaysReject(c) ==
    /\ calls[c].timer = "armed"
    /\ calls[c].left = 0
    /\ LET index == IndexOf(selectionResolvers, c)
       IN  /\ selectionResolvers' =
                  IF index > 0 THEN Splice(selectionResolvers, index)
                  ELSE selectionResolvers
           /\ calls' = [calls EXCEPT ![c] =
                  [Settle(calls[c], "rejected", Null, 1)
                   EXCEPT !.timer = "fired",
                          !.removals = IF index > 0 THEN Min(@ + 1, 2) ELSE @]]
    /\ out' = <<>>
    /\ wrote' = <<>>
    /\ UNCHANGED <<connectedClients, readyState, selectedElement, currentHtml,
                   currentFilePath, fs>>
    /\ UNCHANGED <<watchers, debounceTimers>>

\* The setTimeout callback of call c, run once its delay has elapsed.
TimerFire(c) ==
    /\ calls[c].timer = "armed"
    /\ calls[c].left = 0
    /\ LET index == IndexOf(selectionResolvers, c)
       IN  IF index > 0
           THEN /\ selectionResolvers' = Splice(selectionResolvers, index)
                /\ calls' = [calls EXCEPT ![c] =
                       [Settle(calls[c], "rejected", Null, 1)
                        EXCEPT !.timer = "fired",
                               !.removals = Min(@ + 1, 2)]]
           ELSE /\ UNCHANGED selectionResolvers
                /\ calls' = [calls EXCEPT ![c].timer = "fired"]
    /\ out' = <<>>
    /\ wrote' = <<>>
    /\ UNCHANGED <<connectedClients, readyState, selectedElement, currentHtml,
                   currentFilePath, fs>>
    /\ UNCHANGED <<watchers, debounceTimers>>

\* One unit of time passes for every armed timer.
Tick ==
    /\ \E c \in CallIds : calls[c].timer = "armed" /\ calls[c].left > 0
    /\ calls' = [c \in CallIds |->
                    IF calls[c].timer = "armed" /\ calls[c].left > 0
                    THEN [calls[c] EXCEPT !.left = @ - 1]
                    ELSE calls[c]]
    /\ out' = <<>>
    /\ wrote' = <<>>
    /\ UNCHANGED <<connectedClients, readyState, selectedElement, currentHtml,
                   selectionResolvers, currentFilePath, fs>>
    /\ UNCHANGED <<watchers, debounceTimers>>

\* ---- the controller's tools (mcp-server.ts) ----
\* watchFile(filePath): a path that has a watcher gets no second one.
WatchFile(filePath) == watchers \cup {filePath}

\* unwatchFile(filePath): the watcher is closed; debounceTimers is not touched.
UnwatchFile(filePath) == watchers \ {filePath}

InspectHtml(file_path, watch) ==
    /\ IF ~fs[file_path].exists
       THEN /\ out' = <<Call("inspect_html", file_path, NoChange),
                        Return("not-found")>>
            /\ UNCHANGED <<currentFilePath, currentHtml, watchers>>
       ELSE LET content == fs[file_path].text
            IN  /\ currentFilePath' = file_path
                /\ watchers' = IF watch THEN WatchFile(file_path) ELSE watchers
                /\ currentHtml' = Doc(file_path, content)
                /\ out' = <<Call("inspect_html", file_path, NoChange),
                            Broadcast("load-html", Doc(file_path, content), NoChange),
                            Return("opened")>>
    /\ wrote' = <<>>
    /\ UNCHANGED <<connectedClients, readyState, selectedElement,
                   selectionResolvers, calls, fs, debounceTimers>>

ApplyCssTool(change) ==
    /\ IF currentFilePath = Null
       THEN /\ out' = <<Call("apply_css_change", Null, change),
                        Return("no-file")>>
            /\ wrote' = <<>>
            /\ UNCHANGED <<fs, currentHtml>>
       ELSE \E result \in {ApplyCssChange(fs, currentFilePath, change)} :
                IF result.success
                THEN LET updated == Doc(currentFilePath,
                                        result.files[currentFilePath].text)
                     IN  /\ fs' = result.files
                         /\ wrote' = result.writes
                         /\ currentHtml' = updated
                         /\ out' = <<Call("apply_css_change", Null, change),
                                     Broadcast("load-html", updated, NoChange),
                                     Broadcast("css-applied", NoDoc, change),
                                     Return("applied")>>
                ELSE /\ out' = <<Call("apply_css_change", Null, change),
                                 Return("error")>>
                     /\ wrote' = <<>>
                     /\ UNCHANGED <<fs, currentHtml>>
    /\ UNCHANGED <<connectedClients, readyState, selectedElement,
                   selectionResolvers, calls, currentFilePath>>
    /\ UNCHANGED <<watchers, debounceTimers>>

CloseInspector ==
    /\ currentFilePath' = Null
    /\ watchers' = IF currentFilePath # Null THEN UnwatchFile(currentFilePath)
                   ELSE watchers
    /\ out' = <<Call("close_inspector", Null, NoChange),
                Return("closed")>>
    /\ wrote' = <<>>
    /\ UNCHANGED <<connectedClients, readyState, selectedElement, currentHtml,
                   selectionResolvers, calls, fs, debounceTimers>>

\* ---- the environment: a file is deleted outside the program ----
ExternalRemove(f) ==
    /\ fs[f].exists
    /\ fs' = [fs EXCEPT ![f] = [exists |-> FALSE, text |-> <<>>]]
    /\ out' = <<>>
    /\ wrote' = <<>>
    /\ UNCHANGED <<connectedClients, readyState, selectedElement, currentHtml,
                   selectionResolvers, calls, currentFilePath>>
    /\ UNCHANGED <<watchers, debounceTimers>>

\* ---- the file watcher (file-watcher.ts) ----
DEBOUNCE_MS == 100
\* The step of time of the model, in milliseconds.
TickMs == 50

\* The patterns of the watcher of mainHtmlPath: the document itself and every
\* *.css file of its directory.
CssFiles == {"s.css"}
Watches(mainHtmlPath, changedPath) ==
    changedPath = mainHtmlPath \/ changedPath \in CssFiles

\* The debounce timer of changedPath ran: the first entry of that step.
Fired(changedPath) ==
    Entry("timer", "debounce", {}, Doc(changedPath, <<>>), NoChange)

\* notifyFileChanged(filePath, content)
NotifyFileChanged(filePath, content) ==
    Broadcast("file-changed", Doc(filePath, content), NoChange)

\* Mutant of handleFileChange: a timer that is pending is left to run and no
\* new one is set.
HandleFileChange_KeepTimer(changedPath, mainHtmlPath) ==
    /\ mainHtmlPath \in watchers
    /\ Watches(mainHtmlPath, changedPath)
    /\ fs[changedPath].exists
    /\ debounceTimers' = [debounceTimers EXCEPT ![changedPath] =
           IF @.timer = "armed"
           THEN [@ EXCEPT !.since = 0, !.replaced = TRUE]
           ELSE [timer |-> "armed", left |-> DEBOUNCE_MS, main |-> mainHtmlPath,
                 since |-> 0, replaced |-> FALSE]]
    /\ out' = <<>>
    /\ wrote' = <<>>
    /\ UNCHANGED <<connectedClients, readyState, selectedElement, currentHtml,
                   selectionResolvers, calls, currentFilePath, fs, watchers>>

\* The 'change' callback of the watcher of mainHtmlPath: handleFileChange
\* clears the timer pending for changedPath and sets a new one.
HandleFileChange(changedPath, mainHtmlPath) ==
    /\ mainHtmlPath \in watchers
    /\ Watches(mainHtmlPath, changedPath)
    /\ fs[changedPath].exists
    /\ debounceTimers' = [debounceTimers EXCEPT ![changedPath] =
           [timer |-> "armed", left |-> DEBOUNCE_MS, main |-> mainHtmlPath,
            since |-> 0, replaced |-> debounceTimers[changedPath].timer = "armed"]]
    /\ out' = <<>>
    /\ wrote' = <<>>
    /\ UNCHANGED <<connectedClients, readyState, selectedElement, currentHtml,
                   selectionResolvers, calls, currentFilePath, fs, watchers>>

\* Mutant of the debounce callback: the file read is loaded as the current
\* document (sendFileContent in place of notifyFileChanged).
DebounceFire_Reload(changedPath) ==
    /\ debounceTimers[changedPath].timer = "armed"
    /\ debounceTimers[changedPath].left = 0
    /\ debounceTimers' = [debounceTimers EXCEPT ![changedPath] = NoTimer]
    /\ LET mainHtmlPath == debounceTimers[changedPath].main
       IN  IF fs[mainHtmlPath].exists
           THEN /\ currentHtml' = Doc(mainHtmlPath, fs[mainHtmlPath].text)
                /\ out' = <<Fired(changedPath),
                            NotifyFileChanged(mainHtmlPath, fs[mainHtmlPath].text)>>
           ELSE /\ currentHtml' = currentHtml
                /\ out' = <<Fired(changedPath), Log("read-error")>>
    /\ wrote' = <<>>
    /\ UNCHANGED <<connectedClients, readyState, selectedElement,
                   selectionResolvers, calls, currentFilePath, fs, watchers>>

\* The setTimeout callback of handleFileChange, run once DEBOUNCE_MS elapsed.
DebounceFire(changedPath) ==
    /\ debounceTimers[changedPath].timer = "armed"
    /\ debounceTimers[changedPath].left = 0
    /\ debounceTimers' = [debounceTimers EXCEPT ![changedPath] = NoTimer]
    /\ LET mainHtmlPath == debounceTimers[changedPath].main
       IN  IF fs[mainHtmlPath].exists
           THEN out' = <<Fired(changedPath),
                         NotifyFileChanged(mainHtmlPath, fs[mainHtmlPath].text)>>
           ELSE out' = <<Fired(changedPath), Log("read-error")>>
    /\ wrote' = <<>>
    /\ UNCHANGED <<connectedClients, readyState, selectedElement, currentHtml,
                   selectionResolvers, calls, currentFilePath, fs, watchers>>

\* TickMs milliseconds pass for every pending debounce timer.
DebounceTick ==
    /\ \E f \in Files : debounceTimers[f].timer = "armed" /\ debounceTimers[f].left > 0
    /\ debounceTimers' =
           [f \in Files |->
               IF debounceTimers[f].timer = "armed" /\ debounceTimers[f].left > 0
               THEN [debounceTimers[f] EXCEPT
                        !.left = IF @ > TickMs THEN @ - TickMs ELSE 0,
                        !.since = IF @ + TickMs < DEBOUNCE_MS THEN @ + TickMs
                                  ELSE DEBOUNCE_MS]
               ELSE debounceTimers[f]]
    /\ out' = <<>>
    /\ wrote' = <<>>
    /\ UNCHANGED <<connectedClients, readyState, selectedElement, currentHtml,
                   selectionResolvers, calls, currentFilePath, fs, watchers>>

\* ---- the environment: a document is rewritten outside the program ----
EditedHtml == <<Link("s.css"), HeadClose>>

ExternalWrite(f) ==
    /\ fs[f].exists
    /\ fs' = [fs EXCEPT ![f].text = IF @ = EditedHtml THEN InitHtml ELSE EditedHtml]
    /\ out' = <<>>
    /\ wrote' = <<>>
    /\ UNCHANGED <<connectedClients, readyState, selectedElement, currentHtml,
                   selectionResolvers, calls, currentFilePath, watchers,
                   debounceTimers>>

\* ---- the engine called on its own ----
\* The value applyCssChange returns: success or failure, its message, and
\* modifiedFile.
Result(result) ==
    Entry(IF result.success THEN "success" ELSE "failure", result.message, {},
          Doc(result.modifiedFile, <<>>), NoChange)

EngineApply(htmlPath, change) ==
    /\ \E result \in {ApplyCssChange(fs, htmlPath, change)} :
           /\ fs' = result.files
           /\ wrote' = result.writes
           /\ out' = <<Call("applyCssChange", htmlPath, change), Result(result)>>
    /\ UNCHANGED <<connectedClients, readyState, selectedElement, currentHtml,
                   selectionResolvers, calls, currentFilePath, watchers,
                   debounceTimers>>

EngineRead(htmlPath, selector) ==
    /\ out' = <<Call("getStylesForSelector", htmlPath, Change(selector, "", "")),
                Entry("styles", "getStylesForSelector", {},
                      Doc(Null, GetStylesForSelector(fs, htmlPath, selector)), NoChange)>>
    /\ wrote' = <<>>
    /\ UNCHANGED <<connectedClients, readyState, selectedElement, currentHtml,
                   selectionResolvers, calls, currentFilePath, fs, watchers,
                   debounceTimers>>

\* ---- the functions on one stylesheet called on their own ----
Modified(found) ==
    Entry(IF found THEN "modified" ELSE "unmodified", "applyToCssFile", {}, NoDoc,
          NoChange)

Styles(styles) == Entry("styles", "extractStylesFromCss", {}, Doc(Null, styles), NoChange)

PatchMutate(change) ==
    /\ \E cssResult \in {ApplyToCssFile(fs, "s.css", change)} :
           /\ fs' = cssResult.files
           /\ wrote' = IF cssResult.found THEN <<"s.css">> ELSE <<>>
           /\ out' = <<Call("applyToCssFile", "s.css", change),
                       Modified(cssResult.found)>>
    /\ UNCHANGED <<connectedClients, readyState, selectedElement, currentHtml,
                   selectionResolvers, calls, currentFilePath, watchers,
                   debounceTimers>>

Content(result) ==
    Entry(IF result.modified THEN "modified" ELSE "unmodified", "modifyCssContent", {},
          Doc(Null, result.content), NoChange)

PatchModify(change) ==
    /\ out' = <<Call("modifyCssContent", "s.css", change),
                Content(ModifyCssContent(fs["s.css"].text, change))>>
    /\ wrote' = <<>>
    /\ UNCHANGED <<connectedClients, readyState, selectedElement, currentHtml,
                   selectionResolvers, calls, currentFilePath, fs, watchers,
                   debounceTimers>>

PatchRead(selector) ==
    /\ out' = <<Call("extractStylesFromCss", "s.css", Change(selector, "", "")),
                Styles(ExtractStylesFromCss(fs["s.css"].text, selector))>>
    /\ wrote' = <<>>
    /\ UNCHANGED <<connectedClients, readyState, selectedElement, currentHtml,
                   selectionResolvers, calls, currentFilePath, fs, watchers,
                   debounceTimers>>

\* ---- normalizeSelector called on its own ----
Normalized(selector) ==
    Entry("result", "normalizeSelector", {}, NoDoc, Change(selector, "", ""))

\* The call whose argument out holds returns.
Normalize(selector) ==
    /\ out = <<Call("normalizeSelector", Null, Change(selector, "", ""))>>
    /\ out' = Append(out, Normalized(NormalizeSelector(selector)))
    /\ wrote' = <<>>
    /\ UNCHANGED <<connectedClients, readyState, selectedElement, currentHtml,
                   selectionResolvers, calls, currentFilePath, fs, watchers,
                   debounceTimers>>

\* ---- the specifications ----
\* Spec: the roster, every message that does not touch the file system, the
\* selection waiters and their timers.
Next ==
    \/ \E ws \in Views : Connect(ws)
    \/ \E ws \in Views : BeginClose(ws)
    \/ \E ws \in Views : OnClose(ws)
    \/ \E ws \in Views : OnError(ws)
    \/ \E ws \in Views, payload \in Elements : HandleElementSelected(ws, payload)
    \/ \E ws \in Views : HandlePing(ws)
    \/ \E ws \in Views : HandleReady(ws)
    \/ \E ws \in Views, d \in ViewDocs \cup {NoDoc} : HandleLoadHtml(ws, d)
    \/ \E ws \in Views : HandleUnknown(ws)
    \/ \E c \in CallIds, t \in Timeouts : WaitForSelection(c, t)
    \/ \E c \in CallIds : TimerFire(c)
    \/ Tick

Spec == Init /\ [][Next]_vars

\* DocSpec: the roster, every message and the controller's tools on the
\* document and the file system.  The selection side does not move; it starts
\* in one of three states Spec reaches: nothing selected and nobody waiting,
\* nothing selected and call 1 waiting, or an element selected.
PendingCall ==
    [IdleCall EXCEPT !.st = "pending", !.timer = "armed", !.left = 1,
                     !.registered = TRUE]

DocInit ==
    /\ connectedClients = {}
    /\ readyState = [v \in Views |-> "NONE"]
    /\ currentHtml = NoDoc
    /\ currentFilePath = Null
    /\ fs = InitFs
    /\ watchers = {}
    /\ debounceTimers = [f \in Files |-> NoTimer]
    /\ out = <<>>
    /\ wrote = <<>>
    /\ \/ /\ selectedElement = Null
          /\ selectionResolvers = <<>>
          /\ calls = [c \in CallIds |-> IdleCall]
       \/ /\ selectedElement = Null
          /\ selectionResolvers = <<1>>
          /\ calls = [c \in CallIds |-> IF c = 1 THEN PendingCall ELSE IdleCall]
       \/ /\ selectedElement \in Elements
          /\ selectionResolvers = <<>>
          /\ calls = [c \in CallIds |-> IdleCall]

DocNext ==
    \/ \E ws \in Views : Connect(ws)
    \/ \E ws \in Views : BeginClose(ws)
    \/ \E ws \in Views : OnClose(ws)
    \/ \E ws \in Views : OnError(ws)
    \/ \E ws \in Views : HandlePing(ws)
    \/ \E ws \in Views : HandleReady(ws)
    \/ \E ws \in Views, d \in ViewDocs \cup {NoDoc} : HandleLoadHtml(ws, d)
    \/ \E ws \in Views, ch \in Changes : HandleApplyCss(ws, ch)
    \/ \E ws \in Views : HandleUnknown(ws)
    \/ \E f \in HtmlPaths, watch \in BOOLEAN : InspectHtml(f, watch)
    \/ \E ch \in Changes : ApplyCssTool(ch)
    \/ CloseInspector
    \/ \E f \in Removable : ExternalRemove(f)

DocSpec == DocInit /\ [][DocNext]_vars

\* WatchSpec: the roster, the controller's inspect_html and close_inspector,
\* the file watcher with its debounce timers, and files changing on disk.  The
\* selection side does not move; it starts with call 1 waiting, or with an
\* element selected.
WatchPaths == {"a.html", "b.html"}
ChangedPaths == {"a.html", "s.css"}

WatchInit ==
    /\ connectedClients = {}
    /\ readyState = [v \in Views |-> "NONE"]
    /\ currentHtml = NoDoc
    /\ currentFilePath = Null
    /\ fs = InitFs
    /\ watchers = {}
    /\ debounceTimers = [f \in Files |-> NoTimer]
    /\ out = <<>>
    /\ wrote = <<>>
    /\ \/ /\ selectedElement = Null
          /\ selectionResolvers = <<1>>
          /\ calls = [c \in CallIds |-> IF c = 1 THEN PendingCall ELSE IdleCall]
       \/ /\ selectedElement = "e1"
          /\ selectionResolvers = <<>>
          /\ calls = [c \in CallIds |-> IdleCall]

WatchNext ==
    \/ \E ws \in Views : Connect(ws)
    \/ \E ws \in Views : BeginClose(ws)
    \/ \E ws \in Views : OnClose(ws)
    \/ \E f \in WatchPaths, watch \in BOOLEAN : InspectHtml(f, watch)
    \/ CloseInspector
    \/ \E f \in ChangedPaths, m \in WatchPaths : HandleFileChange(f, m)
    \/ \E f \in ChangedPaths : DebounceFire(f)
    \/ DebounceTick
    \/ \E f \in Removable : ExternalWrite(f)
    \/ \E f \in Removable : ExternalRemove(f)

WatchSpec == WatchInit /\ [][WatchNext]_vars

\* EngineSpec: applyCssChange called again and again on a file system drawn
\* from documents with and without embedded blocks, links and a closing head
\* tag, and linked stylesheets that exist or not.
Blue == Decl("color", "blue")
Wide == Decl("margin", "0")
Money == Decl("content", "$$")

EngineHtmls ==
    {<<Text("x"), Style(<<Rule(SelH1, <<Blue, Wide>>), Rule(SelP, <<Wide>>)>>),
       Link("https://cdn/r.css"), Link("t.css"), Link("s.css"), HeadClose, Text("y")>>,
     <<Style(<<Rule(SelP, <<Blue>>)>>), Text("x"),
       Style(<<Rule(SelH1, <<Wide, Money>>), Rule(SelP, <<Wide, Blue>>)>>),
       Link("s.css"), HeadClose, HeadClose>>,
     <<Text("x"), Link("//cdn/r.css"), Link("t.css"), Link("http://cdn/r.css"),
       Link("s.css"), HeadClose, Text("y")>>,
     <<Text("x"), Link("s.css"), Link("t.css"), Text("y")>>}

EngineSheets ==
    {<<Rule(SelP, <<Blue>>)>>,
     <<Rule(SelH1, <<Wide>>), Rule(SelEm, <<Blue, Wide>>), Rule(SelH1, <<Blue>>)>>}

EngineChanges ==
    {Change(SelH1, "color", "red"), Change(SelP, "color", "red"),
     Change(SelP, "margin", "red"), Change(SelEm, "color", "red"),
     Change(SelEm, "content", "$$")}

Missing == [exists |-> FALSE, text |-> <<>>]
File(text) == [exists |-> TRUE, text |-> text]

EngineInit ==
    /\ connectedClients = {}
    /\ readyState = [v \in Views |-> "NONE"]
    /\ selectedElement = Null
    /\ currentHtml = NoDoc
    /\ selectionResolvers = <<>>
    /\ calls = [c \in CallIds |-> IdleCall]
    /\ currentFilePath = Null
    /\ watchers = {}
    /\ debounceTimers = [f \in Files |-> NoTimer]
    /\ out = <<>>
    /\ wrote = <<>>
    /\ \E html \in EngineHtmls, s, t \in {File(x) : x \in EngineSheets} \cup {Missing} :
           fs = [f \in Files |->
                    IF f = "a.html" THEN File(html)
                    ELSE IF f = "s.css" THEN s
                    ELSE IF f = "t.css" THEN t
                    ELSE Missing]

EngineNext ==
    \E htmlPath \in HtmlPaths, change \in EngineChanges : EngineApply(htmlPath, change)

EngineSpec == EngineInit /\ [][EngineNext]_vars

\* The same documents and stylesheets, read and changed once.
EngineSelectors == {SelH1, SelP, SelEm}

ReadNext ==
    \/ \E htmlPath \in HtmlPaths, selector \in EngineSelectors :
           EngineRead(htmlPath, selector)
    \/ \E htmlPath \in HtmlPaths, change \in EngineChanges :
           out = <<>> /\ EngineApply(htmlPath, change)

ReadSpec == EngineInit /\ [][ReadNext]_vars

\* NormSpec: normalizeSelector applied to every string of at most
\* MaxSelectorLen characters over a name character, two kinds of whitespace,
\* the child combinator and the comma.
\* SelectSpec: one view, the selection with its waiters, and every other event
\* of the coordinator, the tools and the watcher; an element-selected message
\* may come without a payload.
SelectInit ==
    /\ connectedClients = {"v1"}
    /\ readyState = [v \in Views |-> IF v = "v1" THEN "OPEN" ELSE "NONE"]
    /\ selectedElement = Null
    /\ currentHtml = NoDoc
    /\ selectionResolvers = <<>>
    /\ calls = [c \in CallIds |-> IdleCall]
    /\ currentFilePath = Null
    /\ fs = InitFs
    /\ watchers = {}
    /\ debounceTimers = [f \in Files |-> NoTimer]
    /\ out = <<>>
    /\ wrote = <<>>

SelectNext ==
    \/ \E payload \in {"e1", Null} : HandleElementSelected("v1", payload)
    \/ HandleLoadHtml("v1", Doc("a.html", InitHtml))
    \/ HandleApplyCss("v1", Change(SelP, "color", "red"))
    \/ InspectHtml("a.html", TRUE)
    \/ CloseInspector
    \/ HandleFileChange("a.html", "a.html")
    \/ DebounceFire("a.html")
    \/ DebounceTick
    \/ OnClose("v1")
    \/ Connect("v1")
    \/ \E c \in CallIds, t \in Timeouts : WaitForSelection(c, t)
    \/ \E c \in CallIds : TimerFire(c)
    \/ Tick

SelectSpec == SelectInit /\ [][SelectNext]_vars

\* Stylesheets the structured engine handles and the same ones with a stretch
\* csstree.parse throws on, and the requests made of them.
SelChild == <<"h", " ", ">", " ", "p">>
SelNext == <<"h", " ", "+", " ", "p">>
SelNested == <<"e", "m", " ", "p">>
SelUpper == <<"H", "1">>
Paint == Decl("background-color", "blue")

PatchSheets ==
    LET valid == {<<Rule(SelChild, <<Blue>>), Rule(SelP, <<Wide>>)>>,
                  <<Rule(SelNext, <<Blue, Wide>>)>>,
                  <<Rule(SelNested, <<Paint>>), Rule(SelUpper, <<Wide>>),
                    Rule(SelNested, <<Wide>>)>>}
    IN  valid \cup {Append(css, Unparsable) : css \in valid}

PatchSelectors ==
    {SelChild, <<"h", " ", ">", "p">>, <<"h", ">", "p">>, SelNext, <<"h", "+", "p">>,
     SelP, SelH1, SelNested}

PatchChanges ==
    {Change(selector, property, "red") :
        selector \in PatchSelectors, property \in {"color", "margin"}}
        \cup {Change(SelP, "color", "$$")}

PatchInit ==
    /\ connectedClients = {}
    /\ readyState = [v \in Views |-> "NONE"]
    /\ selectedElement = Null
    /\ currentHtml = NoDoc
    /\ selectionResolvers = <<>>
    /\ calls = [c \in CallIds |-> IdleCall]
    /\ currentFilePath = Null
    /\ watchers = {}
    /\ debounceTimers = [f \in Files |-> NoTimer]
    /\ out = <<>>
    /\ wrote = <<>>
    /\ \E css \in PatchSheets : fs = [InitFs EXCEPT !["s.css"] = File(css)]

PatchNext ==
    \/ \E change \in PatchChanges : PatchMutate(change)
    \/ \E change \in PatchChanges : PatchModify(change)
    \/ \E selector \in PatchSelectors : PatchRead(selector)

PatchSpec == PatchInit /\ [][PatchNext]_vars

MaxSelectorLen == 4
SelectorChars == {"a", " ", "\t", ">", ","}
Selectors == UNION {[1..n -> SelectorChars] : n \in 0..MaxSelectorLen}

NormNext == \E selector \in Selectors : Normalize(selector)

NormInit ==
    /\ connectedClients = {}
    /\ readyState = [v \in Views |-> "NONE"]
    /\ selectedElement = Null
    /\ currentHtml = NoDoc
    /\ selectionResolvers = <<>>
    /\ calls = [c \in CallIds |-> IdleCall]
    /\ currentFilePath = Null
    /\ fs = InitFs
    /\ watchers = {}
    /\ debounceTimers = [f \in Files |-> NoTimer]
    /\ wrote = <<>>
    /\ \E selector \in Selectors :
           out = <<Call("normalizeSelector", Null, Change(selector, "", ""))>>

NormSpec == NormInit /\ [][NormNext]_vars

(***************************************************************************)
(* The claims about the selection waiters (checked under Spec).            *)
(***************************************************************************)

\* C1: a registered waiter is in the queue at most once, is taken out of it
\* exactly once, and its call is settled exactly once: while it is queued the
\* call is pending and neither resolve nor reject has been invoked; once it
\* is out of the queue exactly one of them has been invoked, exactly once;
\* and once its timer has run the call is settled.
C1_WaiterOnce ==
    \A c \in CallIds :
        /\ Occurrences(selectionResolvers, c) <= 1
        /\ calls[c].removals <= 1
        /\ calls[c].settles <= 1
        /\ InQueue(selectionResolvers, c) =>
              /\ calls[c].registered
              /\ calls[c].st = "pending"
              /\ calls[c].removals = 0
              /\ calls[c].settles = 0
        /\ (calls[c].registered /\ ~InQueue(selectionResolvers, c)) =>
              /\ calls[c].st \in {"resolved", "rejected"}
              /\ calls[c].removals = 1
              /\ calls[c].settles = 1
        /\ (calls[c].registered /\ calls[c].timer = "fired") =>
              calls[c].st \in {"resolved", "rejected"}

\* A waiter was resolved by a selection and its timer ran afterwards, and
\* another waiter timed out.
C1_Witness ==
    \E c, d \in CallIds :
        /\ calls[c].registered /\ calls[c].st = "resolved"
        /\ calls[c].timer = "fired"
        /\ calls[d].registered /\ calls[d].st = "rejected"

\* C2: an element-selected event resolves every waiter queued at that moment
\* with the event's payload and leaves the queue empty; hence any two calls
\* that were queued and resolved hold the same payload.
C2_SelectionResolvesAll ==
    [][ /\ \A ws \in Views, e \in Elements :
              HandleElementSelected(ws, e) =>
                  /\ \A c \in CallIds :
                        InQueue(selectionResolvers, c) =>
                            /\ calls'[c].st = "resolved"
                            /\ calls'[c].val = e
                  /\ selectionResolvers' = <<>>
        /\ \A c, d \in CallIds :
              (/\ calls'[c].registered /\ calls'[c].st = "resolved"
               /\ calls'[d].registered /\ calls'[d].st = "resolved")
              => calls'[c].val = calls'[d].val
      ]_vars

\* Two calls made before any selection, both resolved by one event.
C2_Witness ==
    /\ calls[1].registered /\ calls[1].st = "resolved"
    /\ calls[2].registered /\ calls[2].st = "resolved"
    /\ calls[1].val = selectedElement
    /\ calls[2].val = selectedElement
    /\ selectionResolvers = <<>>

\* The queue without call c, the other waiters in their order.
Without(queue, c) == SelectSeq(queue, LAMBDA x : x # c)

\* C3: a call is rejected only by its own timer, only once its whole delay
\* has elapsed, and only if its waiter is still queued; that step takes this
\* waiter alone out of the queue and leaves every other call as it was; a
\* rejected call stays rejected and never comes back into the queue.
C3_TimeoutRemovesOnlyItself ==
    [][ \A c \in CallIds :
          /\ (TimerFire(c) /\ InQueue(selectionResolvers, c)) =>
                /\ calls'[c].st = "rejected"
                /\ selectionResolvers' = Without(selectionResolvers, c)
                /\ \A d \in CallIds \ {c} : calls'[d] = calls[d]
          /\ (calls[c].st # "rejected" /\ calls'[c].st = "rejected") =>
                /\ calls[c].timer = "armed"
                /\ calls[c].left = 0
                /\ InQueue(selectionResolvers, c)
          /\ calls[c].st = "rejected" =>
                /\ calls'[c].st = "rejected"
                /\ ~InQueue(selectionResolvers', c)
      ]_vars

\* The first waiter timed out; the second stayed queued and was resolved by
\* the selection that came next.
C3_Witness ==
    /\ calls[1].st = "rejected"
    /\ calls[2].registered /\ calls[2].st = "resolved"
    /\ calls[2].val = selectedElement

\* C4: a waitForSelection call made while a selection exists is resolved at
\* once with that selection, leaves the queue as it is and arms no timer, so
\* it stays resolved.
C4_ImmediateResolve ==
    [][ /\ \A c \in CallIds, t \in Timeouts :
              (WaitForSelection(c, t) /\ selectedElement # Null) =>
                  /\ calls'[c].st = "resolved"
                  /\ calls'[c].val = selectedElement
                  /\ calls'[c].timer = "none"
                  /\ selectionResolvers' = selectionResolvers
        /\ \A c \in CallIds :
              (calls[c].st = "resolved" /\ ~calls[c].registered) =>
                  /\ calls'[c] = calls[c]
                  /\ ~InQueue(selectionResolvers', c)
      ]_vars

\* A call resolved at once with the first selection, still resolved with it
\* after a second selection.
C4_Witness ==
    /\ calls[1].st = "resolved" /\ ~calls[1].registered
    /\ calls[1].val = "e1"
    /\ selectedElement = "e2"
    /\ calls[1].timer = "none"

\* C5: getSelectedElement() is null at start, an element-selected event
\* makes it that event's payload, and no other step changes it.
C5_LastWriteWins ==
    /\ GetSelectedElement = Null
    /\ [][ /\ \A ws \in Views, e \in Elements :
                  HandleElementSelected(ws, e) => GetSelectedElement' = e
           /\ (~ \E ws \in Views, e \in Elements : HandleElementSelected(ws, e))
                  => GetSelectedElement' = GetSelectedElement
         ]_vars

\* Two events in sequence: a call made between them holds the first
\* payload, getSelectedElement() the second.
C5_Witness ==
    /\ GetSelectedElement = "e2"
    /\ \E c \in CallIds : calls[c].st = "resolved" /\ calls[c].val = "e1"
    /\ currentHtml # NoDoc

(***************************************************************************)
(* The claims about the document and the messages.  A step is known by the *)
(* first entry of its output: the message or the tool call it handled.     *)
(***************************************************************************)
\* The views a broadcast must reach: in the roster, transport open.
OpenViews == {v \in connectedClients : readyState[v] = "OPEN"}

SentTo(type, to, doc, change) == Entry("send", type, to, doc, change)

\* The step handled this message of view ws, or this call of a tool.
Handled(entry) == out' # <<>> /\ out'[1] = entry

SessionState == <<currentHtml, selectedElement, selectionResolvers, calls, fs>>

\* C7 (DocSpec): an apply-css that cannot succeed (no document loaded, or
\* the document's file missing) writes no file, sends nothing, and leaves the
\* document, the selection, the waiter queue and the files as they were; the
\* engine reports the missing file in its result, and the tool returns an
\* error text.
C7_FailedApplyChangesNothing ==
    [][ /\ \A ws \in Views, ch \in Changes :
              (/\ Handled(Recv("apply-css", ws, NoDoc, ch))
               /\ (currentHtml = NoDoc \/ ~fs[currentHtml.filePath].exists)) =>
                  /\ wrote' = <<>>
                  /\ Tail(out') = <<>>
                  /\ UNCHANGED SessionState
        /\ \A ch \in Changes :
              (/\ Handled(Call("apply_css_change", Null, ch))
               /\ (currentFilePath = Null \/ ~fs[currentFilePath].exists)) =>
                  /\ wrote' = <<>>
                  /\ Tail(out') \in {<<Return("no-file")>>, <<Return("error")>>}
                  /\ UNCHANGED SessionState
        /\ \A f \in Files, ch \in Changes :
              ~fs[f].exists =>
                  LET result == ApplyCssChange(fs, f, ch)
                  IN  /\ result.success = FALSE
                      /\ result.message = "not-found"
                      /\ result.writes = <<>>
                      /\ result.files = fs
      ]_vars

\* The controller's tool failed on a document whose file is gone, while a
\* document is loaded and a waiter is queued.
C7_Witness ==
    /\ Len(out) = 2
    /\ out[1].type = "apply_css_change"
    /\ out[2] = Return("error")
    /\ currentFilePath = "a.html" /\ ~fs["a.html"].exists
    /\ currentHtml # NoDoc
    /\ selectionResolvers = <<1>>
    /\ connectedClients # {}

\* A view's apply-css failed on a loaded document whose file does not exist.
C7_WitnessView ==
    /\ Len(out) = 1
    /\ out[1].type = "apply-css"
    /\ currentHtml.filePath = "ghost.html"
    /\ OpenViews = Views

\* C8 (DocSpec): a load-html message with a document, and the controller's
\* inspect_html (sendFileContent), make exactly that {path, content} pair the
\* current document and send it as load-html to the open views of the
\* roster; the selection and the waiters are unchanged.
C8_LoadReplacesAndBroadcasts ==
    [][ /\ \A ws \in Views, d \in ViewDocs :
              Handled(Recv("load-html", ws, d, NoChange)) =>
                  /\ currentHtml' = d
                  /\ Tail(out') = <<SentTo("load-html", OpenViews, d, NoChange)>>
                  /\ UNCHANGED <<selectedElement, selectionResolvers, calls>>
        /\ \A f \in HtmlPaths :
              (Handled(Call("inspect_html", f, NoChange)) /\ fs[f].exists) =>
                  /\ currentHtml' = Doc(f, fs[f].text)
                  /\ Tail(out') =
                        <<SentTo("load-html", OpenViews, Doc(f, fs[f].text), NoChange),
                          Return("opened")>>
                  /\ UNCHANGED <<selectedElement, selectionResolvers, calls>>
      ]_vars

\* A view replaced the loaded document by another one; of the two views in
\* the roster only the open one was sent it; a waiter is queued.
C8_Witness ==
    /\ out = <<Recv("load-html", "v1", currentHtml, NoChange),
               SentTo("load-html", {"v1"}, currentHtml, NoChange)>>
    /\ currentHtml.filePath = "ghost.html"
    /\ currentFilePath = "a.html"
    /\ connectedClients = Views
    /\ readyState["v2"] = "CLOSING"
    /\ selectionResolvers = <<1>>

\* Everything but the record of the last step's output.
AllState ==
    <<connectedClients, readyState, selectedElement, currentHtml,
      selectionResolvers, calls, currentFilePath, fs>>

\* C9 (DocSpec): ready from a view sends the current document, if there is
\* one, as load-html to that view and to no other, sends nothing if there is
\* none, and changes no state.
C9_ReadyAnswersSenderOnly ==
    [][ \A ws \in Views :
          Handled(Recv("ready", ws, NoDoc, NoChange)) =>
              /\ currentHtml # NoDoc =>
                    Tail(out') = <<SentTo("load-html", {ws}, currentHtml, NoChange)>>
              /\ currentHtml = NoDoc => Tail(out') = <<>>
              /\ wrote' = <<>>
              /\ UNCHANGED AllState
      ]_vars

\* Two views are open, a document is loaded, and only v2 was sent it.
C9_Witness ==
    /\ out = <<Recv("ready", "v2", NoDoc, NoChange),
               SentTo("load-html", {"v2"}, currentHtml, NoChange)>>
    /\ currentHtml # NoDoc
    /\ OpenViews = Views

\* C10 (Spec): ping sends one pong, to the sender alone; a message of an
\* unknown type is logged and sends nothing; neither changes the document,
\* the selection, the waiters or the roster.
C10_PingAndUnknown ==
    [][ \A ws \in Views :
          /\ Handled(Recv("ping", ws, NoDoc, NoChange)) =>
                /\ Tail(out') = <<SentTo("pong", {ws}, NoDoc, NoChange)>>
                /\ UNCHANGED AllState
          /\ Handled(Recv("unknown", ws, NoDoc, NoChange)) =>
                /\ \A i \in 1..Len(out') : out'[i].kind # "send"
                /\ UNCHANGED AllState
      ]_vars

\* Two views are open, a document is loaded, a waiter is queued, and only v1
\* was sent a pong.
C10_Witness ==
    /\ out = <<Recv("ping", "v1", NoDoc, NoChange),
               SentTo("pong", {"v1"}, NoDoc, NoChange)>>
    /\ OpenViews = Views
    /\ currentHtml # NoDoc
    /\ selectionResolvers # <<>>

\* A message of an unknown type was handled with two views open.
C10_WitnessUnknown ==
    /\ out = <<Recv("unknown", "v1", NoDoc, NoChange), Log("unknown-type")>>
    /\ OpenViews = Views
    /\ selectionResolvers # <<>>

(***************************************************************************)
(* The claims about the file watcher and the roster.                       *)
(***************************************************************************)
\* C11 (WatchSpec): the notification a debounce timer raises for a changed
\* path is sent as file-changed, with the main document's path and the
\* content read from disk, to the open views of the roster, and the step
\* leaves the current document (path and content), the selection and the
\* waiter queue as they were.
C11_FileChangedIsPassive ==
    [][ \A f \in Files :
          Handled(Fired(f)) =>
              /\ fs[debounceTimers[f].main].exists =>
                    Tail(out') =
                       <<SentTo("file-changed", OpenViews,
                                Doc(debounceTimers[f].main,
                                    fs[debounceTimers[f].main].text), NoChange)>>
              /\ UNCHANGED <<currentHtml, selectedElement, selectionResolvers, calls>>
      ]_vars

\* Both open views were sent the content now on disk, while the current
\* document still holds the content loaded before and a waiter is queued.
C11_Witness ==
    /\ out = <<Fired("a.html"),
               SentTo("file-changed", Views, Doc("a.html", EditedHtml), NoChange)>>
    /\ currentHtml = Doc("a.html", InitHtml)
    /\ selectionResolvers = <<1>>

\* C12 (DocSpec): a view whose transport is gone is not in the roster; a view
\* enters the roster only by connecting and leaves it only by its close or
\* error event; and every broadcast (every message sent in a step that is not
\* the answer to a ready or a ping) goes to exactly the views of the roster
\* whose transport is open, whatever the state of the other views.
C12_BroadcastReachesOpenRoster ==
    /\ \A ws \in Views : readyState[ws] = "NONE" => ws \notin connectedClients
    /\ [][ /\ \A ws \in Views :
                  /\ (ws \notin connectedClients /\ ws \in connectedClients') =>
                        Connect(ws)
                  /\ (ws \in connectedClients /\ ws \notin connectedClients') =>
                        (OnClose(ws) \/ OnError(ws))
           /\ (out' # <<>> /\ out'[1].type \notin {"ready", "ping"}) =>
                 \A i \in 1..Len(out') :
                     out'[i].kind = "send" => out'[i].to = OpenViews
         ]_vars

\* v1 had an error and left the roster while its transport is still closing;
\* the broadcasts of an apply-css reached v2.
C12_Witness ==
    /\ Len(out) = 3
    /\ out[2].type = "load-html" /\ out[2].to = {"v2"}
    /\ out[3].type = "css-applied" /\ out[3].to = {"v2"}
    /\ connectedClients = {"v2"}
    /\ readyState["v1"] = "CLOSING"

\* C13 (DocSpec), the claim as stated: whenever the controller's
\* apply_css_change invokes the engine, the path it passes is the path of the
\* Coordinator's current document.
C13_ToolUsesCoordinatorPath ==
    [][ \A ch \in Changes :
          (Handled(Call("apply_css_change", Null, ch)) /\ currentFilePath # Null) =>
              currentFilePath = currentHtml.filePath
      ]_vars

(***************************************************************************)
(* The claims about the engine (checked under EngineSpec).  A step is one  *)
(* applyCssChange(htmlPath, change): out' holds the call and its result.   *)
(***************************************************************************)
\* The fragment has a rule whose selector is the target, both canonicalized.
HasRule(css, selector) ==
    \E i \in 1..Len(css) :
        NormalizeSelector(css[i].selector) = NormalizeSelector(selector)

\* The document has an embedded block with a rule for the target.
InlineHit(html, selector) ==
    \E i \in 1..Len(html) : html[i].kind = "style" /\ HasRule(html[i].css, selector)

\* The places of the document's links to a local stylesheet that exists and
\* has a rule for the target.
LinkedHits(files, html, selector) ==
    {i \in 1..Len(html) :
        /\ html[i].kind = "link"
        /\ html[i].href \notin RemoteHrefs
        /\ files[html[i].href].exists
        /\ HasRule(files[html[i].href].text, selector)}

Applied(htmlPath, change) == Handled(Call("applyCssChange", htmlPath, change))

\* C14: a call that returns success wrote exactly one file, the one it
\* reports as modifiedFile, and no other file changed; a call that returns
\* failure wrote nothing and changed nothing.
C14_OneWritePerSuccess ==
    [][ \A htmlPath \in HtmlPaths, change \in EngineChanges :
          Applied(htmlPath, change) =>
              /\ out'[2].kind = "success" =>
                    /\ wrote' = <<out'[2].doc.filePath>>
                    /\ \A f \in Files \ {out'[2].doc.filePath} : fs'[f] = fs[f]
              /\ out'[2].kind = "failure" =>
                    /\ wrote' = <<>>
                    /\ fs' = fs
              /\ out'[2].kind \in {"success", "failure"}
      ]_vars

\* A linked stylesheet was the one file written.
C14_Witness ==
    /\ Len(out) = 2
    /\ out[2].kind = "success" /\ out[2].type = "linked"
    /\ wrote = <<"t.css">>

\* C15: when an embedded block of the document has a rule for the target, the
\* document alone is written and reported as modifiedFile and every other
\* file, the linked stylesheets among them, is as before.
C15_InlineFirst ==
    [][ \A htmlPath \in HtmlPaths, change \in EngineChanges :
          (/\ Applied(htmlPath, change)
           /\ fs[htmlPath].exists
           /\ InlineHit(fs[htmlPath].text, change.selector)) =>
              /\ out'[2].kind = "success" /\ out'[2].type = "style"
              /\ out'[2].doc.filePath = htmlPath
              /\ wrote' = <<htmlPath>>
              /\ \A f \in Files \ {htmlPath} : fs'[f] = fs[f]
      ]_vars

\* The embedded block took p's colour while the linked s.css, which has a rule
\* for p too, still holds the old one.
C15_Witness ==
    /\ Len(out) = 2
    /\ out[1].change = Change(SelP, "color", "red")
    /\ out[2].type = "style"
    /\ fs["s.css"] = File(<<Rule(SelP, <<Blue>>)>>)
    /\ \E i \in 1..Len(fs["a.html"].text) :
           /\ fs["a.html"].text[i].kind = "style"
           /\ \E j \in 1..Len(fs["a.html"].text[i].css) :
                  /\ fs["a.html"].text[i].css[j].selector = SelP
                  /\ \E k \in 1..Len(fs["a.html"].text[i].css[j].decls) :
                         fs["a.html"].text[i].css[j].decls[k] = Decl("color", "red")

\* C16: when no embedded block has a rule for the target and some local
\* linked stylesheet that exists has one, the first such stylesheet in
\* document order is written and reported; remote links and links to missing
\* files are passed over; the later stylesheets and the document are untouched.
C16_FirstLinkedOnly ==
    [][ \A htmlPath \in HtmlPaths, change \in EngineChanges :
          (/\ Applied(htmlPath, change)
           /\ fs[htmlPath].exists
           /\ ~InlineHit(fs[htmlPath].text, change.selector)
           /\ LinkedHits(fs, fs[htmlPath].text, change.selector) # {}) =>
              LET hits == LinkedHits(fs, fs[htmlPath].text, change.selector)
                  first == CHOOSE i \in hits : \A j \in hits : i <= j
                  cssFile == fs[htmlPath].text[first].href
              IN  /\ out'[2].kind = "success" /\ out'[2].type = "linked"
                  /\ out'[2].doc.filePath = cssFile
                  /\ wrote' = <<cssFile>>
                  /\ \A f \in Files \ {cssFile} : fs'[f] = fs[f]
                  /\ fs'[cssFile].text # fs[cssFile].text
                        => HasRule(fs'[cssFile].text, change.selector)
      ]_vars

\* The document links a remote sheet, then t.css, a second remote sheet, then
\* s.css; both local sheets have a rule for h1 and only t.css was written.
C16_Witness ==
    /\ Len(out) = 2
    /\ out[1].change.selector = SelH1
    /\ out[2].type = "linked" /\ out[2].doc.filePath = "t.css"
    /\ fs["a.html"].text[2] = Link("//cdn/r.css")
    /\ fs["s.css"] =
          File(<<Rule(SelH1, <<Wide>>), Rule(SelEm, <<Blue, Wide>>), Rule(SelH1, <<Blue>>)>>)
    /\ fs["t.css"].text # fs["s.css"].text

\* A missing t.css was passed over and s.css, linked after it, was written.
C16_WitnessMissing ==
    /\ Len(out) = 2
    /\ out[2].type = "linked" /\ out[2].doc.filePath = "s.css"
    /\ ~fs["t.css"].exists
    /\ fs["a.html"].text[3] = Link("t.css")

\* C17, the claim as stated: when the document exists and neither an embedded block nor a local
\* linked stylesheet has a rule for the target, the call succeeds, writes the
\* document alone, and the document is the old one with one new style block
\* holding the one rule selector { property: value }, placed right before the
\* first closing head tag, or at the very start when there is none.
C17_SynthesizeBlock ==
    [][ \A htmlPath \in HtmlPaths, change \in EngineChanges :
          (/\ Applied(htmlPath, change)
           /\ fs[htmlPath].exists
           /\ ~InlineHit(fs[htmlPath].text, change.selector)
           /\ LinkedHits(fs, fs[htmlPath].text, change.selector) = {}) =>
              LET html == fs[htmlPath].text
                  heads == {i \in 1..Len(html) : html[i] = HeadClose}
                  at == IF heads = {} THEN 1
                        ELSE CHOOSE i \in heads : \A j \in heads : i <= j
                  block == Style(<<Rule(change.selector,
                                        <<Decl(change.property, change.value)>>)>>)
              IN  /\ out'[2].kind = "success" /\ out'[2].type = "added"
                  /\ out'[2].doc.filePath = htmlPath
                  /\ wrote' = <<htmlPath>>
                  /\ Len(fs'[htmlPath].text) = Len(html) + 1
                  /\ fs'[htmlPath].text[at] = block
                  /\ \A i \in 1..Len(html) :
                        fs'[htmlPath].text[IF i < at THEN i ELSE i + 1] = html[i]
                  /\ \A f \in Files \ {htmlPath} : fs'[f] = fs[f]
      ]_vars

\* What a rule holds besides the declarations the change is about.
Others(rule, change) ==
    IF NormalizeSelector(rule.selector) = NormalizeSelector(change.selector)
    THEN SelectSeq(rule.decls, LAMBDA d : d.property # change.property)
    ELSE rule.decls

KeptCss(before, after, change) ==
    /\ Len(after) = Len(before)
    /\ \A i \in 1..Len(before) :
          /\ NormalizeSelector(after[i].selector) = NormalizeSelector(before[i].selector)
          /\ Others(after[i], change) = Others(before[i], change)

KeptHtml(before, after, change) ==
    /\ Len(after) = Len(before)
    /\ \A i \in 1..Len(before) :
          /\ after[i].kind = before[i].kind
          /\ after[i].href = before[i].href
          /\ KeptCss(before[i].css, after[i].css, change)

\* C18, the claim as stated: in the file a successful call wrote, every rule
\* is still there in its place, a rule that is not a target has its
\* declarations as before, and a target has every declaration of another
\* property as before, values and order included; a new block leaves every
\* element of the document as it was.
C18_UnrelatedKept ==
    [][ \A htmlPath \in HtmlPaths, change \in EngineChanges :
          (Applied(htmlPath, change) /\ out'[2].kind = "success") =>
              LET f == out'[2].doc.filePath
                  before == fs[f].text
                  after == fs'[f].text
              IN  IF out'[2].type = "linked" THEN KeptCss(before, after, change)
                  ELSE IF out'[2].type = "style" THEN KeptHtml(before, after, change)
                  ELSE \E at \in 1..Len(after) :
                          /\ Len(after) = Len(before) + 1
                          /\ \A i \in 1..Len(before) :
                                after[IF i < at THEN i ELSE i + 1] = before[i]
      ]_vars

(***************************************************************************)
(* The claims about selectors.                                             *)
(***************************************************************************)
\* C19 (NormSpec): normalizing the result of normalizeSelector gives that
\* result again.
C19_NormalizeIdempotent ==
    Len(out) = 2 => NormalizeSelector(out[2].change.selector) = out[2].change.selector

\* A selector that begins with the child combinator followed at once by a
\* comma was normalized into something else.
C19_Witness ==
    /\ Len(out) = 2
    /\ Len(out[1].change.selector) = MaxSelectorLen
    /\ out[1].change.selector[1] = ">"
    /\ out[1].change.selector[2] = ","
    /\ out[1].change.selector[MaxSelectorLen] = ">"
    /\ out[2].change.selector # out[1].change.selector

\* C20, the claim as stated: a rule whose selector as written has the canonical
\* form of the requested selector is the target on every path: a mutation
\* reports a modification and leaves the requested declaration in the rule,
\* and a read of a stylesheet that parses reports the properties the rule
\* declares.
C20_CanonicalComparison ==
    [][ \A change \in PatchChanges :
          LET css == fs["s.css"].text
              same == {i \in 1..Len(css) :
                          NormalizeSelector(css[i].selector)
                              = NormalizeSelector(change.selector)}
          IN  /\ Handled(Call("applyToCssFile", "s.css", change)) =>
                    \A i \in same :
                        /\ out'[2].kind = "modified"
                        /\ \E k \in 1..Len(fs'["s.css"].text[i].decls) :
                              fs'["s.css"].text[i].decls[k]
                                  = Decl(change.property, change.value)
              /\ (/\ Handled(Call("extractStylesFromCss", "s.css",
                                    Change(change.selector, "", "")))
                  /\ Parses(css)) =>
                    \A i \in same : \A k \in 1..Len(css[i].decls) :
                        \E j \in 1..Len(out'[2].doc.content) :
                            out'[2].doc.content[j].property = css[i].decls[k].property
      ]_vars

\* The call just made of the stylesheet's mutation.
Mutated(change) == Handled(Call("applyToCssFile", "s.css", change))

\* C21, the claim as stated: on the structured engine and on the fallback
\* alike, a rule whose declarations a mutation changed has a selector whose
\* canonical form is the canonical form of the requested selector, letter
\* case included.
C21_NoFalsePositive ==
    [][ \A change \in PatchChanges :
          Mutated(change) =>
              \A i \in 1..Len(fs["s.css"].text) :
                  fs'["s.css"].text[i].decls # fs["s.css"].text[i].decls =>
                      NormalizeSelector(fs["s.css"].text[i].selector)
                          = NormalizeSelector(change.selector)
      ]_vars

\* The comparison the structured engine and the read path make between a rule
\* and the requested selector.
Matches(rule, selector) ==
    NormalizeSelector(Generate(rule.selector)) = NormalizeSelector(selector)

C22_WitnessUpdate ==
    /\ Len(out) = 2
    /\ out[1] = Call("applyToCssFile", "s.css", Change(SelP, "margin", "red"))
    /\ fs["s.css"].text = <<Rule(<<"h", ">", "p">>, <<Blue>>),
                             Rule(SelP, <<Decl("margin", "red")>>)>>

\* Every declaration of the property in the block has the value, and there is
\* one.
Carries(rule, change) ==
    /\ \E k \in 1..Len(rule.decls) : rule.decls[k] = Decl(change.property, change.value)
    /\ \A k \in 1..Len(rule.decls) :
          rule.decls[k].property = change.property => rule.decls[k].value = change.value

\* C23, the claim as stated (EngineSpec): a successful call that reports an embedded block wrote
\* the document once, and in it every rule of every embedded block that
\* matched the target carries the declaration; one that reports a linked
\* stylesheet left the declaration in every matching rule of that sheet.
C23_EveryMatchUpdated ==
    [][ \A htmlPath \in HtmlPaths, change \in EngineChanges :
          (Applied(htmlPath, change) /\ out'[2].kind = "success") =>
              LET f == out'[2].doc.filePath
                  before == fs[f].text
                  after == fs'[f].text
              IN  /\ out'[2].type = "style" =>
                        /\ wrote' = <<htmlPath>>
                        /\ \A i \in 1..Len(before) :
                              before[i].kind = "style" =>
                                  \A j \in 1..Len(before[i].css) :
                                      Matches(before[i].css[j], change.selector) =>
                                          Carries(after[i].css[j], change)
                  /\ out'[2].type = "linked" =>
                        \A j \in 1..Len(before) :
                            Matches(before[j], change.selector) =>
                                Carries(after[j], change)
      ]_vars

\* Two embedded blocks had a rule for p and both have the new colour after the
\* one write.
C23_Witness ==
    /\ Len(out) = 2
    /\ out[1] = Call("applyCssChange", "a.html", Change(SelP, "color", "red"))
    /\ out[2].type = "style"
    /\ wrote = <<"a.html">>
    /\ fs["a.html"].text[1] = Style(<<Rule(SelP, <<Decl("color", "red")>>)>>)
    /\ fs["a.html"].text[3].kind = "style"
    /\ fs["a.html"].text[3].css[2] = Rule(SelP, <<Wide, Decl("color", "red")>>)

\* A linked stylesheet had two rules for h1: the one with a colour has the new
\* one, the other had it appended.
C23_WitnessSheet ==
    /\ Len(out) = 2
    /\ out[2].type = "linked"
    /\ fs[out[2].doc.filePath].text =
           <<Rule(SelH1, <<Wide, Decl("color", "red")>>), Rule(SelEm, <<Blue, Wide>>),
             Rule(SelH1, <<Decl("color", "red")>>)>>

\* The rules the path taken for a stylesheet takes as the target: the
\* structured engine's comparison when it parses, the fallback's search when it
\* does not.
Targets(css, change) ==
    IF Parses(css)
    THEN {i \in 1..Len(css) : Matches(css[i], change.selector)}
    ELSE {i \in 1..Len(css) :
             /\ css[i] # Unparsable
             /\ EndsWith(LowerSeq(css[i].selector), LowerSeq(change.selector))}

C24_WitnessFallback ==
    /\ Len(out) = 2
    /\ out[1] = Call("modifyCssContent", "s.css", Change(<<"h", ">", "p">>, "color", "red"))
    /\ out[2].kind = "unmodified"
    /\ out[2].doc.content = <<Rule(SelChild, <<Blue>>), Rule(SelP, <<Wide>>), Unparsable>>

\* The declarations of the rules of a stylesheet that match the selector, in
\* the order they are written, from rule i on.
RECURSIVE MatchingDecls(_, _, _)
MatchingDecls(css, selector, i) ==
    IF i > Len(css) THEN <<>>
    ELSE (IF Matches(css[i], selector) THEN css[i].decls ELSE <<>>)
             \o MatchingDecls(css, selector, i + 1)

\* Those of the segments of one kind of a document, from segment i on: an
\* embedded block's own, a link's those of the local stylesheet it names when
\* that exists.
RECURSIVE DeclsFrom(_, _, _, _, _)
DeclsFrom(files, html, selector, kind, i) ==
    IF i > Len(html) THEN <<>>
    ELSE LET css == IF html[i].kind # kind THEN <<>>
                    ELSE IF kind = "style" THEN html[i].css
                    ELSE IF html[i].href \in RemoteHrefs THEN <<>>
                    ELSE IF ~files[html[i].href].exists THEN <<>>
                    ELSE files[html[i].href].text
         IN  MatchingDecls(css, selector, 1) \o DeclsFrom(files, html, selector, kind, i + 1)

\* Document order: the embedded blocks, then the linked stylesheets.
Declared(files, htmlPath, selector) ==
    IF ~files[htmlPath].exists THEN <<>>
    ELSE DeclsFrom(files, files[htmlPath].text, selector, "style", 1)
             \o DeclsFrom(files, files[htmlPath].text, selector, "link", 1)

\* C25 (ReadSpec): getStylesForSelector maps each property to the value of
\* the last declaration of it among the matching rules in document order,
\* embedded blocks before linked local stylesheets, and maps nothing that no
\* matching rule declares; for a document that does not exist it maps nothing.
C25_LastDeclarationWins ==
    [][ \A htmlPath \in HtmlPaths, selector \in EngineSelectors :
          Handled(Call("getStylesForSelector", htmlPath, Change(selector, "", ""))) =>
              LET d == Declared(fs, htmlPath, selector)
                  read == out'[2].doc.content
              IN  /\ \A k \in 1..Len(PropertyList) :
                        LET at == {j \in 1..Len(d) : d[j].property = PropertyList[k]}
                        IN  Lookup(read, PropertyList[k]) =
                                IF at = {} THEN Null
                                ELSE d[CHOOSE j \in at : \A x \in at : x <= j].value
                  /\ \A j \in 1..Len(read) : \E k \in 1..Len(d) : d[k] = read[j]
                  /\ ~fs[htmlPath].exists => read = <<>>
      ]_vars

\* An embedded block gives p a margin and the colour red, the linked s.css
\* gives it the colour blue: the colour read is the stylesheet's, the margin
\* the block's.
C25_Witness ==
    /\ Len(out) = 2
    /\ out[1] = Call("getStylesForSelector", "a.html", Change(SelP, "", ""))
    /\ out[2].doc.content = <<Blue, Wide>>
    /\ fs["s.css"].exists /\ fs["s.css"].text = <<Rule(SelP, <<Blue>>)>>
    /\ \E i \in 1..Len(fs["a.html"].text) :
          /\ fs["a.html"].text[i].kind = "style"
          /\ \E j \in 1..Len(fs["a.html"].text[i].css) :
                fs["a.html"].text[i].css[j] = Rule(SelP, <<Wide, Decl("color", "red")>>)

\* Nothing is read of a document that does not exist.
C25_WitnessMissing ==
    /\ Len(out) = 2
    /\ out[1] = Call("getStylesForSelector", "ghost.html", Change(SelP, "", ""))
    /\ out[2].doc.content = <<>>

\* The property/value pairs a block holds.
Pairs(rule) == {rule.decls[k] : k \in 1..Len(rule.decls)}

\* C26, the claim as stated: for a stylesheet the fallback handles, the
\* modified flag is the one the structured engine returns for the same change
\* on the same rules without the stretch that does not parse, and each rule for
\* the target holds the same property/value pairs in both results.
C26_FallbackEquivalence ==
    [][ \A change \in PatchChanges :
          (/\ Handled(Call("modifyCssContent", "s.css", change))
           /\ ~Parses(fs["s.css"].text)) =>
              LET valid == SelectSeq(fs["s.css"].text, LAMBDA r : r # Unparsable)
                  structured == ModifyCssContent(valid, change)
              IN  /\ (out'[2].kind = "modified") = structured.modified
                  /\ \A i \in 1..Len(valid) :
                        NormalizeSelector(valid[i].selector)
                            = NormalizeSelector(change.selector) =>
                            Pairs(out'[2].doc.content[i]) = Pairs(structured.content[i])
      ]_vars

\* C27, the claim as stated: in a block the fallback matched, a declaration
\* of another property is as before, and when the block has no declaration of
\* the very property the new one is appended after the others.
C27_ExactPropertyOnly ==
    [][ \A change \in PatchChanges :
          (/\ Handled(Call("modifyCssContent", "s.css", change))
           /\ ~Parses(fs["s.css"].text)) =>
              \A i \in Targets(fs["s.css"].text, change) :
                  LET b == fs["s.css"].text[i].decls
                      a == out'[2].doc.content[i].decls
                  IN  /\ \A k \in 1..Len(b) :
                            b[k].property # change.property => a[k] = b[k]
                      /\ (\A k \in 1..Len(b) : b[k].property # change.property) =>
                            a = Append(b, Decl(change.property, change.value))
      ]_vars

\* C28, the claim as stated: a handled element-selected message leaves a
\* selection, and once there is a selection every later step leaves one and
\* leaves the waiter queue empty.
C28_SelectionNeverCleared ==
    [][ /\ Handled(Recv("element-selected", "v1", NoDoc, NoChange)) =>
              selectedElement' # Null
        /\ selectedElement # Null =>
              (selectedElement' # Null /\ selectionResolvers' = <<>>)
      ]_vars

\* C29, the claim as stated: a file-changed notification that reaches a view
\* is for the file under inspection: none is sent for a file once
\* close_inspector has returned or once inspect_html has moved to another file.
C29_NoNotificationAfterClose ==
    [][ \A changedPath \in ChangedPaths :
          (/\ Handled(Fired(changedPath))
           /\ out'[2].type = "file-changed"
           /\ out'[2].to # {}) =>
              out'[2].doc.filePath = currentFilePath
      ]_vars

\* A step sent a file-changed notification.
Notified == \E i \in 1..Len(out') : out'[i].type = "file-changed"

\* C30, the claim as stated: a notification is sent only when a debounce
\* timer runs; a pending timer stays until it runs or a new event of its path
\* replaces it; when it runs, DEBOUNCE_MS have passed since the last change
\* event of its path, no timer is left for the path, and the one notification
\* is sent.
C30_OneNotificationPerBurst ==
    [][ /\ Notified => \E f \in ChangedPaths : out'[1] = Fired(f)
        /\ \A f \in ChangedPaths :
              /\ (debounceTimers[f].timer = "armed" /\ ~Handled(Fired(f))) =>
                    debounceTimers'[f].timer = "armed"
              /\ Handled(Fired(f)) =>
                    /\ debounceTimers[f].since >= DEBOUNCE_MS
                    /\ debounceTimers'[f] = NoTimer
                    /\ Len(out') = 2 /\ out'[2].type = "file-changed"
      ]_vars

\* C30, amended: as above, except that the notification is sent when the main
\* document can be read at that moment; when it cannot, the error is logged
\* and nothing is sent.
C30_OneNotificationIfReadable ==
    [][ /\ Notified => \E f \in ChangedPaths : out'[1] = Fired(f)
        /\ \A f \in ChangedPaths :
              /\ (debounceTimers[f].timer = "armed" /\ ~Handled(Fired(f))) =>
                    debounceTimers'[f].timer = "armed"
              /\ Handled(Fired(f)) =>
                    LET mainHtmlPath == debounceTimers[f].main
                    IN  /\ debounceTimers[f].since >= DEBOUNCE_MS
                        /\ debounceTimers'[f] = NoTimer
                        /\ out' = IF fs[mainHtmlPath].exists
                                  THEN <<Fired(f),
                                         NotifyFileChanged(mainHtmlPath,
                                                           fs[mainHtmlPath].text)>>
                                  ELSE <<Fired(f), Log("read-error")>>
      ]_vars

\* A burst: the timer of a.html took the place of a pending one and has run
\* down, DEBOUNCE_MS after the last event.
C30_Witness ==
    /\ debounceTimers["a.html"].timer = "armed"
    /\ debounceTimers["a.html"].replaced
    /\ debounceTimers["a.html"].left = 0
    /\ debounceTimers["a.html"].since = DEBOUNCE_MS

\* The timer ran while the document was gone: an error was logged and no
\* notification sent.
C30_WitnessUnreadable ==
    /\ Len(out) = 2
    /\ out[1] = Fired("a.html")
    /\ out[2] = Log("read-error")

====
